---- MODULE Spec2Model ----
(***************************************************************************)
(* The pooled LSP proxy of pyright-lsp-proxy: the backend pool keyed by    *)
(* virtual environment, the pending-request tables, the messages that the  *)
(* per-backend reader tasks send to the main loop, and its handlers        *)
(* (dispatch_backend_message, ensure_backend_in_pool, evict_lru_backend,   *)
(* evict_expired_backends, handle_backend_crash).                          *)
(*                                                                         *)
(* src/src/proxy/backend_dispatch.rs and src/src/proxy/pool_management.rs  *)
(* are modelled from their code.  The pool type, the request-id allocator, *)
(* backend creation, the warmup drain, the diagnostics clearing and the    *)
(* client-side dispatch are not among the source files; they are modelled  *)
(* from the written design (sections 4.3 and 4.5) and are marked so in     *)
(* MODEL_MAP.json.                                                         *)
(***************************************************************************)
EXTENDS Integers, Sequences, FiniteSets, TLC

----------------------------------------------------------------------------
(* Bounds of the model *)

\* largest pool capacity the proxy is configured with
MaxCapacity == 2
\* number of backend spawns (sessions) in a run
MaxSession == 2
\* messages a warmup queue holds
MaxQueue == 1
\* proxy request ids allocated in a run
MaxProxyId == 2

\* restarts of the single backend in a run
MaxRestarts == 3

\* messages in the warmup queue of the backend whose warmup is followed
MaxWarmQueue == 2

\* messages that the wait for the shutdown response ignores
MaxSkipped == 3

\* length of a text handed to the text edit functions, in characters
MaxEditLen == 3
\* largest line and character of a position handed to them
MaxPosLine == 3
MaxPosCharacter == 3

\* frames written to one pipe
MaxFrames == 2

\* length of a cached document text, in characters
MaxTextLen == 2
\* items of a contentChanges array
MaxChanges == 2
\* largest line and character of a position in a range
MaxLine == 1
MaxCharacter == 1
\* document versions
MaxVersion == 2

\* virtual environments and the documents living under them
Envs == {"A", "B"}
Uris == {"a1", "b1"}
\* request ids the client uses, and ids the backends use for their own requests
ClientIds == {1, 2}
BackendIds == {1}

\* the id the client gives its initialize request
ClientInitializeIds == {2}

\* JSON-RPC error codes
REQUEST_CANCELLED == -32800
INTERNAL_ERROR == -32603
\* id of the initialize request the proxy sends to a backend
InitializeId == 1

----------------------------------------------------------------------------
(* RpcMessage: id = 0 and method = "" stand for an absent field; kind is   *)
(* params.value.kind of a $/progress notification; code is error.code      *)
(* (0: no error member); uri is params.textDocument.uri.                   *)

RpcMessage(id, method, kind, code, uri) ==
    [id |-> id, method |-> method, kind |-> kind, code |-> code, uri |-> uri]

is_request(m) == m.id # 0 /\ m.method # ""
is_notification(m) == m.id = 0 /\ m.method # ""
is_response(m) == m.id # 0 /\ m.method = ""

\* (mutant) every $/progress notification counts as the end of the warmup
is_progress_end_Any(m) == m.kind # ""

is_progress_end(m) == m.kind = "end"

NoMsg == RpcMessage(0, "", "", 0, "")

\* what a backend process may write to its stdout
BackendMsgs ==
    {RpcMessage(i, "", "", 0, "") : i \in ClientIds}
    \cup {RpcMessage(i, "workspace/configuration", "", 0, "") : i \in BackendIds}
    \cup {RpcMessage(0, "$/progress", k, 0, "") : k \in {"end", "report"}}

----------------------------------------------------------------------------
(* State *)

VARIABLES
    capacity,                   \* BackendPool capacity, fixed at startup
    pool,                       \* env -> BackendInstance or NoBackend
    lru,                        \* envs of the pool, least recently used first
    backend_session,            \* session counter
    next_proxy_id,              \* proxy request-id allocator
    pending_requests,           \* client request id -> PendingRequest
    pending_backend_requests,   \* proxy id -> PendingBackendRequest
    open_documents,             \* uri -> OpenDocument
    client_initialize,          \* id of the cached initialize request, 0: none
    client_out,                 \* messages written to the client by the last step
    backend_out,                \* messages written to backends by the last step
    last_op,                    \* the handler that ran last and its subject
    gone,                       \* sessions removed from the pool, with the cause
    shutdown_started,           \* sessions handed to shutdown_backend_instance
    running,                    \* the main loop has not returned
    cached_text,                \* OpenDocument.text of the document of the edits
    cached_version,             \* OpenDocument.version of that document
    last_change,                \* the didChange request handled last
    next_id,                    \* PyrightBackend.next_id
    sd_pc,                      \* position in shutdown_gracefully
    sd_written,                 \* messages shutdown_gracefully wrote to the child
    sd_skipped,                 \* messages its wait for the response ignored
    sd_failed,                  \* its steps that failed or timed out
    sd_kill,                    \* outcome of kill_backend ("none": not called)
    sd_result,                  \* what shutdown_gracefully returned
    fr_sent,                    \* messages given to write_message, in order
    fr_stream,                  \* bytes written and not yet read
    fr_got,                     \* results of read_message, in order
    te_text,                    \* the String the text edit functions work on
    te_call,                    \* the last call of a text edit function
    active_venv,                \* ProxyState.active_venv of the single backend ("": None)
    sb_backend_session,         \* ProxyState.backend_session of the single backend
    sb_open_documents,          \* uris of ProxyState.open_documents
    sb_client_initialize,       \* ProxyState.client_initialize is Some
    sb_sent,                    \* didOpen notifications written by the last step
    sb_last,                    \* the client message handled last
    sb_running                  \* run of the single backend has not returned

\* the variables of the dispatcher
proxy_vars == <<capacity, pool, lru, backend_session, next_proxy_id, pending_requests,
                pending_backend_requests, open_documents, client_initialize,
                client_out,
                backend_out, last_op, gone, shutdown_started, running>>

NoBackend ==
    [session |-> 0, status |-> "None", queue |-> <<>>]
NoPending == [venv_path |-> "", backend_session |-> 0]
NoPendingBackend == [original_id |-> 0, venv_path |-> "", session |-> 0]
NoDocument == [open |-> FALSE, venv |-> ""]

ProxyIds == 1..MaxProxyId

\* the variables of the document text cache
edit_vars == <<cached_text, cached_version, last_change>>

\* the variables of the graceful shutdown of one backend
shutdown_vars == <<next_id, sd_pc, sd_written, sd_skipped, sd_failed, sd_kill, sd_result>>

\* the variables of one framed pipe
frame_vars == <<fr_sent, fr_stream, fr_got>>

\* the variables of the text edit functions
text_vars == <<te_text, te_call>>

\* the variables of the single-backend main loop
switch_vars == <<active_venv, sb_backend_session, sb_open_documents, sb_client_initialize,
                 sb_sent, sb_last, sb_running>>

vars == <<proxy_vars, edit_vars, shutdown_vars, frame_vars, text_vars, switch_vars>>

----------------------------------------------------------------------------
(* The handlers work on a record S of the mutable state:                   *)
(*   pool, lru, sess (session counter), pid (proxy-id allocator),          *)
(*   pr (pending_requests), pbr (pending_backend_requests), docs,          *)
(*   cinit (client_initialize),                                            *)
(*   cout (writes to the client), bout (writes to backends),               *)
(*   gone, down (history), now (the instances this step removed),          *)
(*   res / target / inst (a handler's return value).                       *)
(* A handler whose result depends on an iteration order that the code      *)
(* leaves open (HashMap iteration) returns the set of its outcomes.        *)

Here ==
    [pool |-> pool, lru |-> lru, sess |-> backend_session, pid |-> next_proxy_id,
     pr |-> pending_requests, pbr |-> pending_backend_requests,
     docs |-> open_documents, cinit |-> client_initialize,
     cout |-> <<>>, bout |-> <<>>,
     gone |-> gone, down |-> shutdown_started, res |-> "ok", target |-> "",
     inst |-> NoBackend, now |-> {}]

\* a message written to the client, tagged with the reader task it came from
\* (session 0: synthesized by the proxy)
ToClient(m, v, s) == [msg |-> m, venv |-> v, session |-> s]
\* a message written to the stdin of backend (v, s)
ToBackend(m, v, s, origin) == [msg |-> m, venv |-> v, session |-> s, origin |-> origin]

\* every order in which the elements of T can be visited
Orderings(T) ==
    IF T = {} THEN {<<>>}
    ELSE {q \in [1..Cardinality(T) -> T] : \A i, j \in 1..Cardinality(T) : i # j => q[i] # q[j]}

MapSeq(q, F(_)) == [k \in 1..Len(q) |-> F(q[k])]

Contains(S, v) == S.pool[v] # NoBackend
Len_(S) == Cardinality({e \in Envs : Contains(S, e)})
is_full(S) == Len_(S) >= capacity
is_warming(inst) == inst.status = "Warming"

\* (mutant) no backend is seen to have pending requests
PendingCount_Zero(S, v, s) == 0

\* the pending-count closure: the pending requests that name (v, s)
PendingCount(S, v, s) ==
    Cardinality({i \in ClientIds :
        S.pr[i].venv_path = v /\ S.pr[i].backend_session = s})
\* (mutant) no backend is seen to have pending requests of its own
PendingBackendCount_Zero(S, v, s) == 0

PendingBackendCount(S, v, s) ==
    Cardinality({p \in ProxyIds :
        S.pbr[p].venv_path = v /\ S.pbr[p].session = s})

\* BackendPool::lru_venv: the least recently used entry without pending
\* requests, else the least recently used entry; "" when the pool is empty
lru_venv(S) ==
    LET idle == {k \in 1..Len(S.lru) :
                    PendingCount(S, S.lru[k], S.pool[S.lru[k]].session) = 0}
    IN  IF S.lru = <<>> THEN ""
        ELSE IF idle # {} THEN S.lru[CHOOSE k \in idle : \A j \in idle : k <= j]
        ELSE S.lru[1]

\* BackendPool::expired_venvs: the entries whose last_used is older than the
\* TTL.  last_used grows along lru, so these are the first k entries of lru,
\* where k is decided by the time that has passed since each was last used
expired_venvs(S, k) == {S.lru[j] : j \in 1..k}

\* BackendPool::remove
pool_remove(S, v) ==
    [S EXCEPT !.pool[v] = NoBackend,
              !.lru = SelectSeq(S.lru, LAMBDA x : x # v)]

\* BackendPool::insert
pool_insert(S, v, inst) ==
    [S EXCEPT !.pool[v] = inst,
              !.lru = Append(SelectSeq(S.lru, LAMBDA x : x # v), v)]

\* update of last_used and of the LRU position
touch(S, v) ==
    [S EXCEPT !.lru = Append(SelectSeq(S.lru, LAMBDA x : x # v), v)]

\* history: (v, s) left the pool
Removed(S, v, s, cause) ==
    [S EXCEPT !.gone = @ \cup {[venv |-> v, session |-> s, cause |-> cause]},
              !.now = @ \cup {[venv |-> v, session |-> s, cause |-> cause]}]

CancelMsg(id) == RpcMessage(id, "", "", REQUEST_CANCELLED, "")
ClearedDiagnostics(u) == RpcMessage(0, "textDocument/publishDiagnostics", "", 0, u)

\* (mutant) the entries are removed, no response is written
cancel_pending_silently(S, v, s) ==
    {[S EXCEPT !.pr = [i \in ClientIds |->
        IF S.pr[i].venv_path = v /\ S.pr[i].backend_session = s
        THEN NoPending ELSE S.pr[i]]]}

cancel_pending_requests_for_backend(S, v, s) ==
    LET to_cancel == {i \in ClientIds :
                         S.pr[i].venv_path = v /\ S.pr[i].backend_session = s}
        Cancel(i) == ToClient(CancelMsg(i), "", 0)
    IN  {[S EXCEPT !.pr = [i \in ClientIds |->
                              IF i \in to_cancel THEN NoPending ELSE S.pr[i]],
                   !.cout = S.cout \o MapSeq(q, Cancel)]
            : q \in Orderings(to_cancel)}

\* (mutant) the entries of the removed backend are kept
clean_pending_backend_requests_nothing(S, v, s) == S

clean_pending_backend_requests(S, v, s) ==
    [S EXCEPT !.pbr = [p \in ProxyIds |->
        IF S.pbr[p].venv_path = v /\ S.pbr[p].session = s
        THEN NoPendingBackend ELSE S.pbr[p]]]

clear_diagnostics_for_venv(S, v) ==
    LET mine == {u \in Uris : S.docs[u].open /\ S.docs[u].venv = v}
        Clear(u) == ToClient(ClearedDiagnostics(u), "", 0)
    IN  {[S EXCEPT !.cout = S.cout \o MapSeq(q, Clear)] : q \in Orderings(mine)}

\* shutdown_backend_instance: the reader task is aborted and the graceful
\* shutdown sequence is started on the instance
shutdown_backend_instance(S, s) == [S EXCEPT !.down = @ \cup {s}]

\* (mutant) the diagnostics of the evicted environment are left in place
EvictInstance_NoClear(S, v, cause) ==
    LET s == S.pool[v].session
        S1 == Removed(pool_remove(S, v), v, s, cause)
    IN  {shutdown_backend_instance(clean_pending_backend_requests(T1, v, s), s)
            : T1 \in cancel_pending_requests_for_backend(S1, v, s)}

\* the body of `if let Some(instance) = pool.remove(..)` in the two eviction paths
EvictInstance(S, v, cause) ==
    LET s == S.pool[v].session
        S1 == Removed(pool_remove(S, v), v, s, cause)
    IN  UNION {{shutdown_backend_instance(T2, s)
                    : T2 \in clear_diagnostics_for_venv(
                                 clean_pending_backend_requests(T1, v, s), v)}
                : T1 \in cancel_pending_requests_for_backend(S1, v, s)}

evict_lru_backend(S) ==
    LET v == lru_venv(S)
    IN  IF v = "" THEN {S} ELSE EvictInstance(S, v, "lru")

\* one iteration of the loop over the expired environments
EvictExpiredOne(S, v) ==
    IF ~Contains(S, v) THEN {S}
    ELSE IF PendingCount(S, v, S.pool[v].session) > 0 THEN {S}
    ELSE IF PendingBackendCount(S, v, S.pool[v].session) > 0 THEN {S}
    ELSE EvictInstance(S, v, "ttl")

RECURSIVE EvictExpiredLoop(_, _)
EvictExpiredLoop(Ss, q) ==
    IF Len(q) = 0 THEN Ss
    ELSE EvictExpiredLoop(UNION {EvictExpiredOne(T, q[1]) : T \in Ss},
                          [k \in 1..(Len(q) - 1) |-> q[k + 1]])

evict_expired_backends(S, k) ==
    UNION {EvictExpiredLoop({S}, q) : q \in Orderings(expired_venvs(S, k))}

\* (mutant) the crashed instance is handed to the graceful shutdown
handle_backend_crash_with_shutdown(S, v, s) ==
    LET should_remove == Contains(S, v) /\ S.pool[v].session = s
    IN  IF ~should_remove THEN {S}
        ELSE {shutdown_backend_instance(clean_pending_backend_requests(T1, v, s), s)
                : T1 \in cancel_pending_requests_for_backend(
                             Removed(pool_remove(S, v), v, s, "crash"), v, s)}

\* (mutant) the crashed instance is removed, its pending requests are left
handle_backend_crash_KeepPending(S, v, s) ==
    LET should_remove == Contains(S, v) /\ S.pool[v].session = s
    IN  IF ~should_remove THEN {S}
        ELSE {clean_pending_backend_requests(
                  Removed(pool_remove(S, v), v, s, "crash"), v, s)}

handle_backend_crash(S, v, s) ==
    LET should_remove == Contains(S, v) /\ S.pool[v].session = s
    IN  IF ~should_remove THEN {S}
        ELSE {clean_pending_backend_requests(T1, v, s)
                : T1 \in cancel_pending_requests_for_backend(
                             Removed(pool_remove(S, v), v, s, "crash"), v, s)}

----------------------------------------------------------------------------
(* Backend creation and warmup *)

\* venv::find_venv, as the layout of the workspace on disk decides it
find_venv(u) == IF u = "a1" THEN "A" ELSE "B"

\* (mutant) the counter stops at its first value
alloc_session_Reuse(S) == IF S.sess = 0 THEN 1 ELSE S.sess

\* "self.state.backend_session += 1; let session = self.state.backend_session"
alloc_session(S) == S.sess + 1

DidOpenOf(u) == RpcMessage(0, "textDocument/didOpen", "", 0, u)
Queued(m, origin) == [msg |-> m, origin |-> origin]

\* "for (url, doc) in &self.state.open_documents": every cached document
ReplayedDocuments(S, v) == {u \in Uris : S.docs[u].open}

\* (mutant) the response to initialize is passed on to the client under the
\* id of the client's own initialize request
InitializeResponse_Forwarded(S, v, s) ==
    [S EXCEPT !.cout = Append(@, ToClient(RpcMessage(S.cinit, "", "", 0, ""), v, s))]

\* the wait for the response to initialize ends at the response whose id is
\* InitializeId; the response is read by the proxy and goes nowhere else
InitializeResponse(S, v, s) == S

\* (mutant) the cache is replayed before the handshake
create_backend_instance_ReplayFirst(S, v, ok) ==
    LET s == alloc_session(S)
        Replay(u) == ToBackend(DidOpenOf(u), v, s, "replay")
        hello == <<ToBackend(RpcMessage(InitializeId, "initialize", "", 0, ""), v, s, "proxy"),
                   ToBackend(RpcMessage(0, "initialized", "", 0, ""), v, s, "proxy")>>
    IN  IF ~ok \/ S.cinit = 0 THEN {[S EXCEPT !.sess = s, !.res = "err"]}
        ELSE {[S EXCEPT !.sess = s, !.res = "ok",
                        !.bout = @ \o MapSeq(q, Replay) \o hello,
                        !.inst = [session |-> s, status |-> "Warming", queue |-> <<>>]]
                : q \in Orderings(ReplayedDocuments(S, v))}

\* session allocation, spawn, initialize handshake with the cached initialize
\* params, initialized, replay of the document cache; ok = FALSE: the spawn
\* failed, or the wait for the initialize response ended in an error
create_backend_instance(S, v, ok) ==
    LET s == alloc_session(S)
        Replay(u) == ToBackend(DidOpenOf(u), v, s, "replay")
        initialize == ToBackend(RpcMessage(InitializeId, "initialize", "", 0, ""), v, s, "proxy")
        initialized == ToBackend(RpcMessage(0, "initialized", "", 0, ""), v, s, "proxy")
    IN  IF ~ok \/ S.cinit = 0 THEN {[S EXCEPT !.sess = s, !.res = "err"]}
        ELSE {[InitializeResponse([S EXCEPT !.bout = Append(@, initialize)], v, s)
                  EXCEPT !.sess = s, !.res = "ok",
                         !.bout = Append(@, initialized) \o MapSeq(q, Replay),
                         !.inst = [session |-> s, status |-> "Warming", queue |-> <<>>]]
                : q \in Orderings(ReplayedDocuments(S, v))}

\* (mutant) no eviction before the insert
MakeRoom_NoEvict(S) == {S}

\* "Need to create a new backend. Evict if full."
MakeRoom(S) == IF is_full(S) THEN evict_lru_backend(S) ELSE {S}

\* How many more sessions the run may spawn
CanSpawn(S) == S.sess < MaxSession

\* the environment a uri is routed to: the cached one, else the one found on disk
target_venv_of(S, u) == IF S.docs[u].open THEN S.docs[u].venv ELSE find_venv(u)

\* (mutant) the instance is put into the pool before it is created
ensure_backend_in_pool_InsertFirst(S, u, ok) ==
    LET target_venv == target_venv_of(S, u)
        half(T) == [session |-> T.sess, status |-> "Warming", queue |-> <<>>]
    IN  IF target_venv = "" THEN {[S EXCEPT !.res = "none"]}
        ELSE IF Contains(S, target_venv)
        THEN {[S EXCEPT !.res = "ok", !.target = target_venv]}
        ELSE IF ~CanSpawn(S) THEN {}
        ELSE UNION {{IF T2.res = "err" THEN pool_insert(T2, target_venv, half(T2))
                     ELSE [pool_insert(T2, target_venv, T2.inst)
                              EXCEPT !.target = target_venv, !.inst = NoBackend]
                        : T2 \in create_backend_instance(T1, target_venv, ok)}
                    : T1 \in MakeRoom(S)}

ensure_backend_in_pool(S, u, ok) ==
    LET target_venv == target_venv_of(S, u)
    IN  IF target_venv = "" THEN {[S EXCEPT !.res = "none"]}
        ELSE IF Contains(S, target_venv)
        THEN {[S EXCEPT !.res = "ok", !.target = target_venv]}
        ELSE IF ~CanSpawn(S) THEN {}
        ELSE UNION {{IF T2.res = "err" THEN T2
                     ELSE [pool_insert(T2, target_venv, T2.inst)
                              EXCEPT !.target = target_venv, !.inst = NoBackend]
                        : T2 \in create_backend_instance(T1, target_venv, ok)}
                    : T1 \in MakeRoom(S)}

\* the outcomes of a spawn that the handler of a message for uri u can meet
SpawnOutcomes(S, u) ==
    IF Contains(S, target_venv_of(S, u)) THEN {TRUE} ELSE BOOLEAN

\* (mutant) the instance is returned as it was
mark_ready_Not(inst) == inst

\* BackendInstance::mark_ready
mark_ready(inst) == [inst EXCEPT !.status = "Ready", !.queue = <<>>]

drain_warmup_queue(S, v, s, queued) ==
    LET Write(x) == ToBackend(x.msg, v, s, "drain")
    IN  [S EXCEPT !.bout = @ \o MapSeq(queued, Write)]

ClientQueued(inst) ==
    Cardinality({k \in 1..Len(inst.queue) : inst.queue[k].origin = "client"})

\* steps 6 and 7 of the client-side dispatch: enqueue while Warming, write
\* when Ready, update last_used
forward_to_backend(S, v, m) ==
    IF is_warming(S.pool[v])
    THEN IF ClientQueued(S.pool[v]) >= MaxQueue THEN {}
         ELSE {touch([S EXCEPT !.pool[v].queue = Append(@, Queued(m, "client"))], v)}
    ELSE {touch([S EXCEPT !.bout = Append(@, ToBackend(m, v, S.pool[v].session, "client"))], v)}

----------------------------------------------------------------------------
(* dispatch_backend_message *)

\* (mutant) the stale check compares the environment only
is_current_env_only(S, v, s) == Contains(S, v)

is_current(S, v, s) == Contains(S, v) /\ S.pool[v].session = s

alloc_proxy_request_id(S) == S.pid + 1

\* (mutant) the request keeps the id the backend gave it
ForwardBackendRequest_KeepId(S, v, s, m) ==
    [S EXCEPT !.pbr[m.id] = [original_id |-> m.id, venv_path |-> v, session |-> s],
              !.cout = Append(@, ToClient(m, v, s))]

\* a server->client request: rewrite the id and remember the original
ForwardBackendRequest(S, v, s, m) ==
    LET proxy_id == alloc_proxy_request_id(S)
        pending == [original_id |-> m.id, venv_path |-> v, session |-> s]
    IN  [S EXCEPT !.pid = proxy_id,
                  !.pbr[proxy_id] = pending,
                  !.cout = Append(@, ToClient([m EXCEPT !.id = proxy_id], v, s))]

\* (mutant) no response is taken for stale
StaleResponse_Never(S, v, s, m) == FALSE

\* the pending entry of a response names another backend or session
StaleResponse(S, v, s, m) ==
    /\ S.pr[m.id] # NoPending
    /\ (S.pr[m.id].backend_session # s \/ S.pr[m.id].venv_path # v)

\* (mutant) the queue is written but the instance stays Warming
WarmupTransition_KeepWarming(S, v, s, m) ==
    IF /\ is_notification(m)
       /\ m.method = "$/progress" /\ is_progress_end(m)
       /\ Contains(S, v) /\ is_warming(S.pool[v])
    THEN LET queued == S.pool[v].queue
             S1 == [S EXCEPT !.pool[v].queue = <<>>]
         IN  IF queued # <<>> THEN drain_warmup_queue(S1, v, s, queued) ELSE S1
    ELSE S

\* "$/progress end -> transition warming backend to ready"
WarmupTransition(S, v, s, m) ==
    IF /\ is_notification(m)
       /\ m.method = "$/progress" /\ is_progress_end(m)
       /\ Contains(S, v) /\ is_warming(S.pool[v])
    THEN LET queued == S.pool[v].queue
             S1 == [S EXCEPT !.pool[v] = mark_ready(@)]
         IN  IF queued # <<>> THEN drain_warmup_queue(S1, v, s, queued) ELSE S1
    ELSE S

\* (mutant) the message is written twice
ForwardToClient_Twice(S, v, s, m) ==
    [S EXCEPT !.cout = @ \o <<ToClient(m, v, s), ToClient(m, v, s)>>]

\* "Forward message to client"
ForwardToClient(S, v, s, m) == [S EXCEPT !.cout = Append(@, ToClient(m, v, s))]

\* (mutant) no stale session check on a message that was read
dispatch_backend_message_NoStaleCheck(S, bm) ==
    LET v == bm.venv_path
        s == bm.session
        m == bm.msg
    IN  IF ~bm.ok THEN handle_backend_crash(S, v, s)
        ELSE IF is_request(m)
        THEN IF S.pid >= MaxProxyId THEN {} ELSE {ForwardBackendRequest(S, v, s, m)}
        ELSE IF is_response(m) /\ StaleResponse(S, v, s, m)
        THEN {[S EXCEPT !.pr[m.id] = NoPending]}
        ELSE LET S1 == IF is_response(m) THEN [S EXCEPT !.pr[m.id] = NoPending] ELSE S
                 S2 == WarmupTransition(S1, v, s, m)
             IN  {ForwardToClient(S2, v, s, m)}

\* (mutant) a crash signal of a session that left the pool takes down the
\* backend that holds its environment now
dispatch_backend_message_LateCrash(S, bm) ==
    LET v == bm.venv_path
        s == bm.session
        m == bm.msg
    IN  IF ~is_current(S, v, s)
        THEN (IF ~bm.ok /\ Contains(S, v)
              THEN handle_backend_crash(S, v, S.pool[v].session) ELSE {S})
        ELSE IF ~bm.ok THEN handle_backend_crash(S, v, s)
        ELSE IF is_request(m)
        THEN IF S.pid >= MaxProxyId THEN {} ELSE {ForwardBackendRequest(S, v, s, m)}
        ELSE IF is_response(m) /\ StaleResponse(S, v, s, m)
        THEN {[S EXCEPT !.pr[m.id] = NoPending]}
        ELSE LET S1 == IF is_response(m) THEN [S EXCEPT !.pr[m.id] = NoPending] ELSE S
                 S2 == WarmupTransition(S1, v, s, m)
             IN  {ForwardToClient(S2, v, s, m)}

dispatch_backend_message(S, bm) ==
    LET v == bm.venv_path
        s == bm.session
        m == bm.msg
    IN  IF ~is_current(S, v, s) THEN {S}
        ELSE IF ~bm.ok THEN handle_backend_crash(S, v, s)
        ELSE IF is_request(m)
        THEN IF S.pid >= MaxProxyId THEN {} ELSE {ForwardBackendRequest(S, v, s, m)}
        ELSE IF is_response(m) /\ StaleResponse(S, v, s, m)
        THEN {[S EXCEPT !.pr[m.id] = NoPending]}
        ELSE LET S1 == IF is_response(m) THEN [S EXCEPT !.pr[m.id] = NoPending] ELSE S
                 S2 == WarmupTransition(S1, v, s, m)
             IN  {ForwardToClient(S2, v, s, m)}

----------------------------------------------------------------------------
(* The main loop: one action per event the loop waits for *)

Op(name, v, s, id) ==
    [op |-> name, venv |-> v, session |-> s, id |-> id, uri |-> "", expired |-> 0,
     removed |-> {}]
\* the handler of a notification about document u
OpOn(name, v, s, u) == [Op(name, v, s, 0) EXCEPT !.uri = u]

\* the handler returns with state T; the loop goes on (r) or run returns
CommitLoop(T, op, r) ==
    /\ running
    /\ running' = r
    /\ pool' = T.pool
    /\ lru' = T.lru
    /\ backend_session' = T.sess
    /\ next_proxy_id' = T.pid
    /\ pending_requests' = T.pr
    /\ pending_backend_requests' = T.pbr
    /\ open_documents' = T.docs
    /\ client_initialize' = T.cinit
    /\ client_out' = T.cout
    /\ backend_out' = T.bout
    /\ gone' = T.gone
    /\ shutdown_started' = T.down
    /\ last_op' = [op EXCEPT !.removed = T.now]
    /\ UNCHANGED capacity
    /\ UNCHANGED <<edit_vars, shutdown_vars, frame_vars, text_vars, switch_vars>>

\* the handler returns Ok, the loop takes the next event
Commit(T, op) == CommitLoop(T, op, TRUE)

\* (mutant) the error is dropped and the loop goes on
Exit_GoesOn(T, op) == CommitLoop(T, op, TRUE)

\* an error is propagated out of run with `?`
Exit(T, op) == CommitLoop(T, op, FALSE)

\* no didChange has been handled
NoChange == [changes |-> <<>>, version |-> 0]

\* the document of the edits is empty and unedited
EditIdle ==
    /\ cached_text = <<>>
    /\ cached_version = 0
    /\ last_change = NoChange

\* no backend is being shut down
ShutdownIdle ==
    /\ next_id = 1
    /\ sd_pc = "idle"
    /\ sd_written = <<>>
    /\ sd_skipped = 0
    /\ sd_failed = {}
    /\ sd_kill = "none"
    /\ sd_result = "none"

\* nothing was written to the framed pipe
FrameIdle ==
    /\ fr_sent = <<>>
    /\ fr_stream = <<>>
    /\ fr_got = <<>>

\* no text edit function was called
NoCall == [fn |-> "none"]
TextIdle ==
    /\ te_text = <<>>
    /\ te_call = NoCall

\* the single-backend main loop has not started
NoClientMessage == [op |-> "start"]
SwitchIdle ==
    /\ active_venv = ""
    /\ sb_backend_session = 0
    /\ sb_open_documents = {}
    /\ sb_client_initialize = FALSE
    /\ sb_sent = <<>>
    /\ sb_last = NoClientMessage
    /\ sb_running = TRUE

Init ==
    /\ EditIdle
    /\ ShutdownIdle
    /\ FrameIdle
    /\ SwitchIdle
    /\ TextIdle
    /\ capacity \in 1..MaxCapacity
    /\ pool = [e \in Envs |-> NoBackend]
    /\ lru = <<>>
    /\ backend_session = 0
    /\ next_proxy_id = 0
    /\ pending_requests = [i \in ClientIds |-> NoPending]
    /\ pending_backend_requests = [p \in ProxyIds |-> NoPendingBackend]
    /\ open_documents = [u \in Uris |-> NoDocument]
    /\ client_initialize = 0
    /\ client_out = <<>>
    /\ backend_out = <<>>
    /\ last_op = Op("start", "", 0, 0)
    /\ gone = {}
    /\ shutdown_started = {}
    /\ running = TRUE

\* initialize from the client: the message is cached for the handshakes with
\* the backends; the pool is still empty
ClientInitialize(id) ==
    /\ client_initialize = 0
    /\ Commit([Here EXCEPT !.cinit = id], Op("initialize", "", 0, id))

\* textDocument/didOpen from the client: the document is cached, the backend
\* of its environment is ensured; a backend created for it has received the
\* document through the replay, so the message itself is not forwarded; a
\* failure of the spawn or of the handshake is propagated out of run
ClientDidOpen(u) ==
    LET S0 == [Here EXCEPT !.docs[u] = [open |-> TRUE, venv |-> find_venv(u)]]
    IN  \E ok \in SpawnOutcomes(S0, u) : \E T \in ensure_backend_in_pool(S0, u, ok) :
            IF T.res # "ok" THEN Exit(T, OpOn("didOpen_failed", "", 0, u))
            ELSE IF ~Contains(S0, T.target)
            THEN Commit(T, OpOn("didOpen", T.target, T.pool[T.target].session, u))
            ELSE \E T2 \in forward_to_backend(T, T.target, DidOpenOf(u)) :
                     Commit(T2, OpOn("didOpen", T.target, T2.pool[T.target].session, u))

\* a document-scoped request from the client
ClientRequest(id, u) ==
    /\ pending_requests[id] = NoPending
    /\ \E ok \in SpawnOutcomes(Here, u) : \E T \in ensure_backend_in_pool(Here, u, ok) :
          IF T.res = "ok"
          THEN LET v == T.target
                   T1 == [T EXCEPT !.pr[id] = [venv_path |-> v,
                                               backend_session |-> T.pool[v].session]]
               IN  \E T2 \in forward_to_backend(
                                 T1, v, RpcMessage(id, "textDocument/hover", "", 0, u)) :
                       Commit(T2, Op("request", v, T2.pool[v].session, id))
          ELSE Commit([T EXCEPT !.cout = Append(@,
                          ToClient(RpcMessage(id, "", "", INTERNAL_ERROR, ""), "", 0))],
                      Op("request_failed", "", 0, id))

\* the client's response to a server-initiated request
ClientResponse(p) ==
    /\ pending_backend_requests[p] # NoPendingBackend
    /\ LET e == pending_backend_requests[p]
           S1 == [Here EXCEPT !.pbr[p] = NoPendingBackend]
       IN  IF is_current(S1, e.venv_path, e.session)
           THEN \E T \in forward_to_backend(
                             S1, e.venv_path, RpcMessage(e.original_id, "", "", 0, "")) :
                    Commit(T, Op("response", e.venv_path, e.session, p))
           ELSE Commit(S1, Op("response_dropped", e.venv_path, e.session, p))

\* textDocument/didClose from the client: the main loop has no branch for
\* it, the message is only forwarded
ClientDidClose(u) ==
    /\ open_documents[u].open
    /\ LET v == open_documents[u].venv
       IN  IF Contains(Here, v)
           THEN \E T \in forward_to_backend(
                             Here, v, RpcMessage(0, "textDocument/didClose", "", 0, u)) :
                    Commit(T, OpOn("didClose", v, T.pool[v].session, u))
           ELSE Commit(Here, OpOn("didClose", "", 0, u))

\* the (venv, session) pairs that reader tasks tag their messages with: a
\* backend now in the pool, or one that was removed while messages of its
\* reader task were still in the channel
Tags ==
    {[venv_path |-> e, session |-> pool[e].session] : e \in {x \in Envs : pool[x] # NoBackend}}
    \cup {[venv_path |-> g.venv, session |-> g.session] : g \in gone}

BackendMessage(tag, ok, m) ==
    [venv_path |-> tag.venv_path, session |-> tag.session, ok |-> ok, msg |-> m]

\* what the channel can deliver: Ok(msg) read by a reader task, or its Err
Deliverable ==
    {BackendMessage(tag, TRUE, m) : tag \in Tags, m \in BackendMsgs}
    \cup {BackendMessage(tag, FALSE, NoMsg) : tag \in Tags}

DispatchKind(bm) ==
    IF ~is_current(Here, bm.venv_path, bm.session)
    THEN (IF bm.ok THEN "stale" ELSE "stale_err")
    ELSE IF ~bm.ok THEN "crash"
    ELSE IF is_request(bm.msg) THEN "backend_request"
    ELSE IF is_response(bm.msg) THEN "backend_response"
    ELSE "backend_notification"

\* the main loop receives a BackendMessage from the channel
DispatchBackendMessage(bm) ==
    \E T \in dispatch_backend_message(Here, bm) :
        Commit(T, Op(DispatchKind(bm), bm.venv_path, bm.session, bm.msg.id))

\* the periodic TTL tick, at a time when k entries are older than the TTL
TTLTick(k) ==
    \E T \in evict_expired_backends(Here, k) :
        Commit(T, [Op("ttl_tick", "", 0, 0) EXCEPT !.expired = k])

\* the warmup deadline of backend e elapses
WarmupDeadline(e) ==
    /\ pool[e] # NoBackend /\ is_warming(pool[e])
    /\ LET queued == pool[e].queue
           S1 == [Here EXCEPT !.pool[e] = mark_ready(@)]
       IN  Commit(drain_warmup_queue(S1, e, pool[e].session, queued),
                  Op("warmup_deadline", e, pool[e].session, 0))

\* reading the client's pipe fails (EOF, bad header, bad length, bad JSON)
ClientReadError == Exit(Here, Op("client_read_error", "", 0, 0))

\* the loop's own read of the pipe of backend e fails
BackendReadError(e) ==
    /\ pool[e] # NoBackend
    /\ Exit(Here, Op("backend_read_error", e, pool[e].session, 0))

Next ==
    \/ ClientReadError
    \/ \E e \in Envs : BackendReadError(e)
    \/ \E id \in ClientInitializeIds : ClientInitialize(id)
    \/ \E u \in Uris : ClientDidOpen(u)
    \/ \E id \in ClientIds, u \in Uris : ClientRequest(id, u)
    \/ \E p \in ProxyIds : ClientResponse(p)
    \/ \E u \in Uris : ClientDidClose(u)
    \/ \E bm \in Deliverable : DispatchBackendMessage(bm)
    \/ \E k \in 1..Len(lru) : TTLTick(k)
    \/ \E e \in Envs : WarmupDeadline(e)

Spec == Init /\ [][Next]_vars

\* A backend answers a request once, after it has read it: a response of a
\* current backend carries the id of a request that was written to this
\* backend and is not answered yet.  Sessions that left the pool may still
\* have any response on the channel.
Conforming(bm) ==
    (bm.ok /\ is_response(bm.msg) /\ is_current(Here, bm.venv_path, bm.session))
    => /\ pending_requests[bm.msg.id] =
             [venv_path |-> bm.venv_path, backend_session |-> bm.session]
       /\ \A k \in 1..Len(pool[bm.venv_path].queue) :
             pool[bm.venv_path].queue[k].msg.id # bm.msg.id

\* the main loop with backends that conform to JSON-RPC
NextConforming ==
    \/ ClientReadError
    \/ \E e \in Envs : BackendReadError(e)
    \/ \E id \in ClientInitializeIds : ClientInitialize(id)
    \/ \E u \in Uris : ClientDidOpen(u)
    \/ \E id \in ClientIds, u \in Uris : ClientRequest(id, u)
    \/ \E p \in ProxyIds : ClientResponse(p)
    \/ \E u \in Uris : ClientDidClose(u)
    \/ \E bm \in Deliverable : Conforming(bm) /\ DispatchBackendMessage(bm)
    \/ \E k \in 1..Len(lru) : TTLTick(k)
    \/ \E e \in Envs : WarmupDeadline(e)

SpecConforming == Init /\ [][NextConforming]_vars

\* The choice of the eviction victim, from every full pool: each env holds
\* a backend, the sessions are those of the order of creation, the requests
\* of the client are pending at any of the backends, the LRU order is any
InitLru ==
    /\ EditIdle
    /\ ShutdownIdle
    /\ FrameIdle
    /\ SwitchIdle
    /\ TextIdle
    /\ capacity = Cardinality(Envs)
    /\ \E created \in Orderings(Envs) : \E st \in [Envs -> {"Warming", "Ready"}] :
          /\ pool = [e \in Envs |->
                       [session |-> CHOOSE k \in 1..Len(created) : created[k] = e,
                        status |-> st[e], queue |-> <<>>]]
          /\ backend_session = Len(created)
    /\ lru \in Orderings(Envs)
    /\ next_proxy_id = 0
    /\ pending_requests \in
          [ClientIds -> {NoPending} \cup
              {[venv_path |-> e, backend_session |-> pool[e].session] : e \in Envs}]
    /\ pending_backend_requests = [p \in ProxyIds |-> NoPendingBackend]
    /\ open_documents \in [Uris -> {NoDocument} \cup
                                {[open |-> TRUE, venv |-> find_venv(u)] : u \in Uris}]
    /\ \A u \in Uris : open_documents[u].open => open_documents[u].venv = find_venv(u)
    /\ client_initialize \in ClientInitializeIds
    /\ client_out = <<>>
    /\ backend_out = <<>>
    /\ last_op = Op("start", "", 0, 0)
    /\ gone = {}
    /\ shutdown_started = {}
    /\ running = TRUE

\* a backend for an env outside the pool is needed: "Evict if full"
EvictForNewBackend ==
    /\ is_full(Here)
    /\ \E T \in MakeRoom(Here) : Commit(T, Op("make_room", "", 0, 0))

SpecLru == InitLru /\ [][EvictForNewBackend]_vars

\* the warmup deadline is a timer: it elapses for whatever backend is still
\* Warming
InitLive == Init /\ capacity = 1
SpecLive == InitLive /\ [][Next]_vars /\ \A e \in Envs : WF_vars(WarmupDeadline(e))

\* The end of a warmup, from every pool of one backend that the client has
\* sent requests to: the backend is Ready, or Warming with those requests in
\* its queue in the order they came
HoverRequest(id, u) == RpcMessage(id, "textDocument/hover", "", 0, u)

\* the orders in which the client can have sent up to MaxWarmQueue requests
WarmQueueIds ==
    UNION {Orderings(I) : I \in {J \in SUBSET ClientIds : Cardinality(J) <= MaxWarmQueue}}

InitWarm ==
    /\ EditIdle
    /\ ShutdownIdle
    /\ FrameIdle
    /\ SwitchIdle
    /\ TextIdle
    /\ capacity \in 1..MaxCapacity
    /\ \E u \in Uris : \E ids \in WarmQueueIds : \E st \in {"Warming", "Ready"} :
          LET e == find_venv(u)
              Request(i) == Queued(HoverRequest(i, u), "client")
          IN  /\ pool = [x \in Envs |->
                           IF x # e THEN NoBackend
                           ELSE [session |-> 1, status |-> st,
                                 queue |-> IF st = "Warming"
                                           THEN MapSeq(ids, Request) ELSE <<>>]]
              /\ lru = <<e>>
              /\ pending_requests = [i \in ClientIds |->
                    IF \E k \in 1..Len(ids) : ids[k] = i
                    THEN [venv_path |-> e, backend_session |-> 1] ELSE NoPending]
              /\ open_documents = [x \in Uris |->
                    IF x = u THEN [open |-> TRUE, venv |-> e] ELSE NoDocument]
    /\ backend_session = 1
    /\ next_proxy_id = 0
    /\ pending_backend_requests = [p \in ProxyIds |-> NoPendingBackend]
    /\ client_initialize \in ClientInitializeIds
    /\ client_out = <<>>
    /\ backend_out = <<>>
    /\ last_op = Op("start", "", 0, 0)
    /\ gone = {}
    /\ shutdown_started = {}
    /\ running = TRUE

NextWarm ==
    \/ \E bm \in Deliverable : DispatchBackendMessage(bm)
    \/ \E u \in Uris : ClientDidOpen(u)
    \/ \E id \in ClientIds, u \in Uris : ClientRequest(id, u)

SpecWarm == InitWarm /\ [][NextWarm]_vars

----------------------------------------------------------------------------
(* The document text cache.  A text is a sequence of characters; a          *)
(* character is "a" (one byte, one UTF-16 unit), "NL" (the newline) or "S4" *)
(* (a scalar outside the BMP: four bytes, two UTF-16 units).  Offsets are   *)
(* byte offsets into the UTF-8 string, as in the code.                      *)

Chars == {"a", "NL", "S4"}
len_utf8(ch) == IF ch = "S4" THEN 4 ELSE 1
\* (mutant) every character counts one unit
len_utf16_One(ch) == 1

len_utf16(ch) == IF ch = "S4" THEN 2 ELSE 1

Texts == UNION {[1..n -> Chars] : n \in 0..MaxTextLen}

RECURSIVE ByteLen(_)
ByteLen(text) == IF text = <<>> THEN 0 ELSE len_utf8(Head(text)) + ByteLen(Tail(text))

\* the byte offset at which the k-th character starts (k = Len + 1: the end)
ByteOffsetOf(text, k) == ByteLen(SubSeq(text, 1, k - 1))

\* str::is_char_boundary: n is the byte offset of a character or the length
is_char_boundary(text, n) == \E k \in 1..(Len(text) + 1) : ByteOffsetOf(text, k) = n

\* the results of position_to_offset: Err, Ok(byte offset), or a panic of a
\* slice taken off a character boundary
EditErr == [ok |-> FALSE, offset |-> 0, panic |-> FALSE]
EditOk(offset) == [ok |-> TRUE, offset |-> offset, panic |-> FALSE]
EditPanic == [ok |-> FALSE, offset |-> 0, panic |-> TRUE]

\* &text[a..b] for character boundaries a <= b
Slice(text, a, b) ==
    LET i == CHOOSE k \in 1..(Len(text) + 1) : ByteOffsetOf(text, k) = a
        j == CHOOSE k \in 1..(Len(text) + 1) : ByteOffsetOf(text, k) = b
    IN  SubSeq(text, i, j - 1)

\* (mutant) the count of UTF-16 code units is returned as the byte index
RECURSIVE OffsetInLine_Utf16(_, _, _, _)
OffsetInLine_Utf16(line_text, k, utf16_offset, character) ==
    IF k > Len(line_text) THEN -1
    ELSE IF utf16_offset >= character THEN utf16_offset
    ELSE OffsetInLine_Utf16(line_text, k + 1,
                            utf16_offset + len_utf16(line_text[k]), character)

\* the loop of find_offset_in_line over line_text.char_indices(), k the next
\* character: the idx it returns at, -1 when it runs to the end
RECURSIVE OffsetInLine(_, _, _, _)
OffsetInLine(line_text, k, utf16_offset, character) ==
    IF k > Len(line_text) THEN -1
    ELSE IF utf16_offset >= character THEN ByteOffsetOf(line_text, k)
    ELSE OffsetInLine(line_text, k + 1,
                      utf16_offset + len_utf16(line_text[k]), character)

find_offset_in_line(text, line_start, line_end, character) ==
    IF \/ ~is_char_boundary(text, line_start) \/ ~is_char_boundary(text, line_end)
       \/ line_start > line_end
    THEN EditPanic
    ELSE LET idx == OffsetInLine(Slice(text, line_start, line_end), 1, 0, character)
         IN  IF idx >= 0 THEN EditOk(line_start + idx) ELSE EditOk(line_end)

\* (mutant) the line after the final newline is out of range
RECURSIVE ScanLines_NoLineAtEof(_, _, _, _, _, _)
ScanLines_NoLineAtEof(text, k, current_line, line_start_offset, line, character) ==
    IF k > Len(text)
    THEN IF current_line = line /\ line_start_offset < ByteLen(text)
         THEN find_offset_in_line(text, line_start_offset, ByteLen(text), character)
         ELSE EditErr
    ELSE IF text[k] = "NL"
    THEN IF current_line = line
         THEN find_offset_in_line(text, line_start_offset, ByteOffsetOf(text, k), character)
         ELSE ScanLines_NoLineAtEof(text, k + 1, current_line + 1,
                                    ByteOffsetOf(text, k) + 1, line, character)
    ELSE ScanLines_NoLineAtEof(text, k + 1, current_line, line_start_offset, line, character)

\* the loop of position_to_offset over text.char_indices(), k the next
\* character and ByteOffsetOf(text, k) its idx
RECURSIVE ScanLines(_, _, _, _, _, _)
ScanLines(text, k, current_line, line_start_offset, line, character) ==
    IF k > Len(text)
    THEN IF current_line = line
         THEN find_offset_in_line(text, line_start_offset, ByteLen(text), character)
         ELSE EditErr
    ELSE IF text[k] = "NL"
    THEN IF current_line = line
         THEN find_offset_in_line(text, line_start_offset, ByteOffsetOf(text, k), character)
         ELSE ScanLines(text, k + 1, current_line + 1,
                        ByteOffsetOf(text, k) + 1, line, character)
    ELSE ScanLines(text, k + 1, current_line, line_start_offset, line, character)

position_to_offset(text, line, character) == ScanLines(text, 1, 0, 0, line, character)

\* (mutant) the new text is inserted and nothing is removed
replace_range_Insert(text, start_offset, end_offset, new_text) ==
    LET i == CHOOSE k \in 1..(Len(text) + 1) : ByteOffsetOf(text, k) = start_offset
    IN  SubSeq(text, 1, i - 1) \o new_text \o SubSeq(text, i, Len(text))

\* String::replace_range on byte offsets that are character boundaries
replace_range(text, start_offset, end_offset, new_text) ==
    LET i == CHOOSE k \in 1..(Len(text) + 1) : ByteOffsetOf(text, k) = start_offset
        j == CHOOSE k \in 1..(Len(text) + 1) : ByteOffsetOf(text, k) = end_offset
    IN  SubSeq(text, 1, i - 1) \o new_text \o SubSeq(text, j, Len(text))

\* the results of apply_incremental_change on text: Err, Ok, or the panic of
\* position_to_offset or of replace_range; the text changes on Ok only
ChangeErr(text) == [ok |-> FALSE, text |-> text, panic |-> FALSE]
ChangePanic(text) == [ok |-> FALSE, text |-> text, panic |-> TRUE]

\* (mutant) a range whose start is after its end is edited the other way round
apply_incremental_change_AnyOrder(text, range, new_text) ==
    LET start == position_to_offset(text, range.start.line, range.start.character)
        end == position_to_offset(text, range.end.line, range.end.character)
    IN  IF ~start.ok \/ ~end.ok THEN ChangeErr(text)
        ELSE IF start.offset > end.offset
        THEN [ok |-> TRUE, panic |-> FALSE,
              text |-> replace_range(text, end.offset, start.offset, new_text)]
        ELSE [ok |-> TRUE, panic |-> FALSE,
              text |-> replace_range(text, start.offset, end.offset, new_text)]

apply_incremental_change(text, range, new_text) ==
    LET start == position_to_offset(text, range.start.line, range.start.character)
        end == position_to_offset(text, range.end.line, range.end.character)
    IN  IF start.panic THEN ChangePanic(text)
        ELSE IF ~start.ok THEN ChangeErr(text)
        ELSE IF end.panic THEN ChangePanic(text)
        ELSE IF ~end.ok THEN ChangeErr(text)
        ELSE IF start.offset > end.offset THEN ChangeErr(text)
        ELSE IF \/ ~is_char_boundary(text, start.offset)
                \/ ~is_char_boundary(text, end.offset)
        THEN ChangePanic(text)
        ELSE [ok |-> TRUE, panic |-> FALSE,
              text |-> replace_range(text, start.offset, end.offset, new_text)]

\* the items of contentChanges: with a range (incremental) or without (full)
Positions == [line : 0..MaxLine, character : 0..MaxCharacter]
NoRange == [start |-> [line |-> -1, character |-> -1], end |-> [line |-> -1, character |-> -1]]
Ranges == [start : Positions, end : Positions]
NewTexts == UNION {[1..n -> Chars] : n \in 0..1}
ChangeItems == [range : Ranges \cup {NoRange}, text : NewTexts]
DidChangeRequests ==
    [changes : UNION {[1..n -> ChangeItems] : n \in 0..MaxChanges}, version : 1..MaxVersion]

\* a handler that adopts the declared version of an empty didChange
handle_did_change_EmptySetsVersion(doc, req) ==
    IF req.changes = <<>> THEN [doc EXCEPT !.version = req.version]
    ELSE [text |-> req.changes[Len(req.changes)].text, version |-> req.version]

\* handle_did_change on the cached document doc = [text, version]
handle_did_change(doc, req) ==
    IF req.changes = <<>> THEN doc
    ELSE LET last_change_item == req.changes[Len(req.changes)]
         IN  [text |-> last_change_item.text, version |-> req.version]

\* textDocument/didChange from the client for the cached document; the
\* client numbers its changes upwards
ClientDidChange(req) ==
    LET doc == handle_did_change([text |-> cached_text, version |-> cached_version], req)
    IN  /\ req.version > cached_version
        /\ cached_text' = doc.text
        /\ cached_version' = doc.version
        /\ last_change' = req
        /\ UNCHANGED <<proxy_vars, shutdown_vars, frame_vars, text_vars, switch_vars>>

\* the document was opened with any text, the client then edits it
\* the dispatcher right after construction, left alone
ProxyIdle ==
    /\ capacity = 1
    /\ pool = [e \in Envs |-> NoBackend]
    /\ lru = <<>>
    /\ backend_session = 0
    /\ next_proxy_id = 0
    /\ pending_requests = [i \in ClientIds |-> NoPending]
    /\ pending_backend_requests = [p \in ProxyIds |-> NoPendingBackend]
    /\ open_documents = [u \in Uris |-> NoDocument]
    /\ client_initialize = 0
    /\ client_out = <<>>
    /\ backend_out = <<>>
    /\ last_op = Op("start", "", 0, 0)
    /\ gone = {}
    /\ shutdown_started = {}
    /\ running = TRUE

InitEdit ==
    /\ cached_text \in Texts
    /\ cached_version = 0
    /\ last_change = NoChange
    /\ ShutdownIdle
    /\ FrameIdle
    /\ SwitchIdle
    /\ TextIdle
    /\ ProxyIdle

NextEdit == \E req \in DidChangeRequests : ClientDidChange(req)

SpecEdit == InitEdit /\ [][NextEdit]_vars

\* the texts and positions the text edit functions are called with
EditTexts == UNION {[1..n -> Chars] : n \in 0..MaxEditLen}
EditPositions == [line : 0..MaxPosLine, character : 0..MaxPosCharacter]

\* position_to_offset is called on the text drawn
PositionToOffset(pos) ==
    LET r == position_to_offset(te_text, pos.line, pos.character)
    IN  /\ te_call = NoCall
        /\ te_call' = [fn |-> "position_to_offset", text |-> te_text,
                       line |-> pos.line, character |-> pos.character,
                       ok |-> r.ok, offset |-> r.offset, panic |-> r.panic]
        /\ UNCHANGED <<te_text, proxy_vars, edit_vars, shutdown_vars, frame_vars, switch_vars>>

\* apply_incremental_change is called on the text drawn
ApplyIncrementalChange(range, new_text) ==
    LET r == apply_incremental_change(te_text, range, new_text)
    IN  /\ te_call = NoCall
        /\ te_text' = r.text
        /\ te_call' = [fn |-> "apply_incremental_change", text |-> te_text,
                       range |-> range, new_text |-> new_text, ok |-> r.ok,
                       panic |-> r.panic]
        /\ UNCHANGED <<proxy_vars, edit_vars, shutdown_vars, frame_vars, switch_vars>>

InitText ==
    /\ te_text \in EditTexts
    /\ te_call = NoCall
    /\ EditIdle
    /\ ShutdownIdle
    /\ FrameIdle
    /\ SwitchIdle
    /\ ProxyIdle

NextText ==
    \/ \E pos \in EditPositions : PositionToOffset(pos)
    \/ \E s \in EditPositions, e \in EditPositions, new_text \in NewTexts :
          ApplyIncrementalChange([start |-> s, end |-> e], new_text)

SpecText == InitText /\ [][NextText]_vars

(***************************************************************************)
(* The single-backend main loop (proxy.rs): one backend at a time, which   *)
(* is restarted when a textDocument/didOpen names a document of another    *)
(* virtual environment; the documents of the cache are replayed to the new *)
(* backend.                                                                *)
(***************************************************************************)

\* the documents a client opens: those of Uris and one outside every venv
SingleUris == Uris \cup {"n1"}

\* venv::find_venv of a document's path ("": no .venv found)
find_venv_single(u) == IF u \in Uris THEN find_venv(u) ELSE ""

\* ProxyState::needs_venv_switch
needs_venv_switch(current, new_venv) ==
    IF current # "" THEN current # new_venv ELSE TRUE

\* a textDocument/didOpen written to the backend of a session
DidOpenSent(u, session, via) == [uri |-> u, session |-> session, via |-> via]

\* restart_backend_with_venv: Err when the new backend cannot be spawned or
\* initialized or no initialize is cached; else the didOpen notifications
\* written to the new backend, one per cached document whose write succeeded,
\* in the iteration order of the map
restart_backend_with_venv(docs, cinit, start_ok, failed) ==
    IF ~start_ok \/ ~cinit
    THEN {[ok |-> FALSE, replayed |-> <<>>]}
    ELSE {[ok |-> TRUE, replayed |-> q] : q \in Orderings(docs \ failed)}

\* handle_did_open: caches the document when the notification carries its text,
\* then restarts the backend when the document's venv differs from the active
\* one; res is "switched" for Ok(Some(new_backend)), "none" for Ok(None)
handle_did_open(u, has_text, start_ok, failed) ==
    LET docs == IF has_text THEN sb_open_documents \cup {u} ELSE sb_open_documents
        found_venv == find_venv_single(u)
    IN  IF found_venv # "" /\ needs_venv_switch(active_venv, found_venv)
        THEN {[res      |-> IF r.ok THEN "switched" ELSE "err",
               docs     |-> docs,
               session  |-> sb_backend_session + 1,
               venv     |-> IF r.ok THEN found_venv ELSE active_venv,
               replayed |-> r.replayed]
                 : r \in restart_backend_with_venv(docs, sb_client_initialize, start_ok, failed)}
        ELSE {[res      |-> "none",
               docs     |-> docs,
               session  |-> sb_backend_session,
               venv     |-> active_venv,
               replayed |-> <<>>]}

AfterDidOpen_AlwaysForward(res) == "forward"

\* what the main loop does with a didOpen after handle_did_open returned
AfterDidOpen(res) == IF res = "switched" THEN "continue" ELSE "forward"

\* the client sends initialize: cached and forwarded
ClientInitializeSingle(send_ok) ==
    /\ sb_running
    /\ ~sb_client_initialize
    /\ sb_client_initialize' = TRUE
    /\ sb_sent' = <<>>
    /\ sb_last' = [op |-> "initialize"]
    /\ sb_running' = send_ok
    /\ UNCHANGED <<active_venv, sb_backend_session, sb_open_documents>>
    /\ UNCHANGED <<proxy_vars, edit_vars, shutdown_vars, frame_vars, text_vars>>

\* the client sends textDocument/didOpen for u
ClientDidOpenSingle(u, has_text, start_ok, failed, send_ok) ==
    /\ sb_running
    /\ sb_backend_session < MaxRestarts
    /\ \E h \in handle_did_open(u, has_text, start_ok, failed) :
         LET forward == h.res # "err" /\ AfterDidOpen(h.res) = "forward"
         IN  /\ sb_open_documents' = h.docs
             /\ sb_backend_session' = h.session
             /\ active_venv' = h.venv
             /\ sb_sent' = [k \in 1..Len(h.replayed) |-> DidOpenSent(h.replayed[k], h.session, "replay")]
                             \o (IF forward /\ send_ok
                                 THEN <<DidOpenSent(u, h.session, "forward")>>
                                 ELSE <<>>)
             /\ sb_running' = (h.res # "err" /\ (forward => send_ok))
             /\ sb_last' = [op |-> "didOpen", uri |-> u, has_text |-> has_text,
                            res |-> h.res, failed |-> failed]
    /\ UNCHANGED sb_client_initialize
    /\ UNCHANGED <<proxy_vars, edit_vars, shutdown_vars, frame_vars, text_vars>>

\* run before its loop: the backend is spawned with the fallback venv, if any
InitSwitch ==
    /\ active_venv \in {""} \cup Envs
    /\ sb_backend_session = 0
    /\ sb_open_documents = {}
    /\ sb_client_initialize = FALSE
    /\ sb_sent = <<>>
    /\ sb_last = NoClientMessage
    /\ sb_running = TRUE
    /\ ProxyIdle
    /\ EditIdle
    /\ ShutdownIdle
    /\ FrameIdle
    /\ TextIdle

NextSwitch ==
    \/ \E send_ok \in BOOLEAN : ClientInitializeSingle(send_ok)
    \/ \E u \in SingleUris, has_text \in BOOLEAN, start_ok \in BOOLEAN,
          failed \in SUBSET SingleUris, send_ok \in BOOLEAN :
         ClientDidOpenSingle(u, has_text, start_ok, failed, send_ok)

SpecSwitch == InitSwitch /\ [][NextSwitch]_vars

----------------------------------------------------------------------------
(* The graceful shutdown of one backend (PyrightBackend::shutdown_gracefully *)
(* and kill_backend), one action per await of the function.                  *)

ShutdownSteps == {"send_shutdown", "wait_response", "send_exit", "wait_child"}

\* what the wait for the shutdown response can read within its 2 s
ShutdownReads ==
    {[kind |-> "response", id |-> i] : i \in 1..2}
    \cup {[kind |-> k, id |-> 0] : k \in {"notification", "read_error", "timeout"}}

\* (mutant) the child is never killed after the wait for its exit
AfterWaitChild_NeverKill(out) == "done"

\* where shutdown_gracefully goes after child.wait() with its 1 s timeout
AfterWaitChild(out) == IF out = "exited" THEN "done" ELSE "kill"

\* the result of kill_backend after start_kill and the 500 ms wait
KillResult(out) == IF out = "killed" THEN "Ok" ELSE "Err"

ShutdownStep(pc, written, skipped, failed, kill, result) ==
    /\ sd_pc' = pc
    /\ sd_written' = written
    /\ sd_skipped' = skipped
    /\ sd_failed' = failed
    /\ sd_kill' = kill
    /\ sd_result' = result
    /\ UNCHANGED <<proxy_vars, edit_vars, frame_vars, text_vars, switch_vars>>

\* the shutdown request with a fresh id is sent
SendShutdown(ok) ==
    /\ sd_pc = "start"
    /\ next_id' = next_id + 1
    /\ IF ok
       THEN ShutdownStep("wait_response",
                         Append(sd_written, RpcMessage(next_id, "shutdown", "", 0, "")),
                         sd_skipped, sd_failed, sd_kill, sd_result)
       ELSE ShutdownStep("kill", sd_written, sd_skipped,
                         sd_failed \cup {"send_shutdown"}, sd_kill, sd_result)

\* (mutant) any response ends the wait
WaitShutdownResponse_AnyResponse(r) ==
    /\ sd_pc = "wait_response"
    /\ UNCHANGED next_id
    /\ IF r.kind = "response"
       THEN ShutdownStep("send_exit", sd_written, sd_skipped, sd_failed, sd_kill, sd_result)
       ELSE IF r.kind = "notification"
       THEN /\ sd_skipped < MaxSkipped
            /\ ShutdownStep("wait_response", sd_written, sd_skipped + 1, sd_failed,
                            sd_kill, sd_result)
       ELSE ShutdownStep("send_exit", sd_written, sd_skipped,
                         sd_failed \cup {"wait_response"}, sd_kill, sd_result)

\* one turn of the loop that waits for the shutdown response; the id of the
\* request is next_id - 1
WaitShutdownResponse(r) ==
    /\ sd_pc = "wait_response"
    /\ UNCHANGED next_id
    /\ IF r.kind = "response" /\ r.id = next_id - 1
       THEN ShutdownStep("send_exit", sd_written, sd_skipped, sd_failed, sd_kill, sd_result)
       ELSE IF r.kind \in {"response", "notification"}
       THEN /\ sd_skipped < MaxSkipped
            /\ ShutdownStep("wait_response", sd_written, sd_skipped + 1, sd_failed,
                            sd_kill, sd_result)
       ELSE ShutdownStep("send_exit", sd_written, sd_skipped,
                         sd_failed \cup {"wait_response"}, sd_kill, sd_result)

\* the exit notification is sent; a failure is only logged
SendExit(ok) ==
    /\ sd_pc = "send_exit"
    /\ UNCHANGED next_id
    /\ IF ok
       THEN ShutdownStep("wait_child",
                         Append(sd_written, RpcMessage(0, "exit", "", 0, "")),
                         sd_skipped, sd_failed, sd_kill, sd_result)
       ELSE ShutdownStep("wait_child", sd_written, sd_skipped,
                         sd_failed \cup {"send_exit"}, sd_kill, sd_result)

\* child.wait() with its 1 s timeout
WaitChild(out) ==
    LET pc == AfterWaitChild(out)
    IN  /\ sd_pc = "wait_child"
        /\ UNCHANGED next_id
        /\ ShutdownStep(pc, sd_written, sd_skipped,
                        IF out = "exited" THEN sd_failed ELSE sd_failed \cup {"wait_child"},
                        sd_kill,
                        IF pc = "done" THEN "Ok" ELSE sd_result)

\* kill_backend: start_kill, then child.wait() with its 500 ms timeout
KillBackend(out) ==
    /\ sd_pc = "kill"
    /\ UNCHANGED next_id
    /\ ShutdownStep("done", sd_written, sd_skipped, sd_failed, out, KillResult(out))

InitShutdown ==
    /\ next_id = 1
    /\ sd_pc = "start"
    /\ sd_written = <<>>
    /\ sd_skipped = 0
    /\ sd_failed = {}
    /\ sd_kill = "none"
    /\ sd_result = "none"
    /\ EditIdle
    /\ FrameIdle
    /\ SwitchIdle
    /\ TextIdle
    /\ ProxyIdle

NextShutdown ==
    \/ \E ok \in BOOLEAN : SendShutdown(ok)
    \/ \E r \in ShutdownReads : WaitShutdownResponse(r)
    \/ \E ok \in BOOLEAN : SendExit(ok)
    \/ \E out \in {"exited", "error", "timeout"} : WaitChild(out)
    \/ \E out \in {"start_kill_failed", "killed", "wait_error", "wait_timeout"} :
          KillBackend(out)

SpecShutdown == InitShutdown /\ [][NextShutdown]_vars

\* every await of shutdown_gracefully returns: the sends complete or fail,
\* the reads and the waits for the child are under a timeout
SpecShutdownLive == SpecShutdown /\ WF_vars(NextShutdown)

----------------------------------------------------------------------------
(* Framing (LspFrameWriter::write_message, LspFrameReader::read_message).    *)
(* A stream is a sequence of bytes.  The byte "C" stands for the literal     *)
(* "Content-Length: ", "J" for the member "jsonrpc":"2.0", "i" "m" "p" "r"   *)
(* "E" "d" for the keys id, method, params, result, error, data; "q" is the  *)
(* quote, "n" the literal null, "C3" "A9" the two bytes of one character.    *)

\* Option<Value>: None, Some(Value::Null), Some(Value::String) of one
\* character of two bytes
OptValues == {"None", "null", "e"}
NoId == [tag |-> "None", v |-> 0]
RpcIds == {NoId, [tag |-> "Number", v |-> 1], [tag |-> "String", v |-> 1]}
RpcErrors == {[tag |-> "None", data |-> "None"]}
             \cup {[tag |-> "Some", data |-> d] : d \in {"None", "null"}}
FramedMessages ==
    [id : RpcIds, method : {"None", "m"}, params : OptValues, result : OptValues,
     error : RpcErrors]

DecimalDigits == <<"0", "1", "2", "3", "4", "5", "6", "7", "8", "9">>
IsDigit(b) == \E d \in 1..10 : DecimalDigits[d] = b
DigitValue(b) == (CHOOSE d \in 1..10 : DecimalDigits[d] = b) - 1

\* format!("{}", n)
RECURSIVE ToDecimal(_)
ToDecimal(n) ==
    IF n < 10 THEN <<DecimalDigits[n + 1]>>
    ELSE Append(ToDecimal(n \div 10), DecimalDigits[(n % 10) + 1])

\* str::parse::<usize>: [ok, value]
RECURSIVE ParseDecimal(_)
ParseDecimal(s) ==
    IF s = <<>> \/ \E k \in 1..Len(s) : ~IsDigit(s[k]) THEN [ok |-> FALSE, value |-> 0]
    ELSE IF Len(s) = 1 THEN [ok |-> TRUE, value |-> DigitValue(s[1])]
    ELSE [ok |-> TRUE,
          value |-> 10 * ParseDecimal(SubSeq(s, 1, Len(s) - 1)).value
                    + DigitValue(s[Len(s)])]

\* serde_json of a Value
EncValue(v) == IF v = "null" THEN <<"n">> ELSE <<"q", "C3", "A9", "q">>
\* of an RpcId (untagged: a number, or a string in quotes)
EncId(id) ==
    IF id.tag = "Number" THEN ToDecimal(id.v) ELSE <<"q">> \o ToDecimal(id.v) \o <<"q">>

\* serde_json::to_vec of an RpcMessage: a None field is skipped
to_vec(M) ==
    <<"{", "J">>
    \o (IF M.id.tag = "None" THEN <<>> ELSE <<"i">> \o EncId(M.id))
    \o (IF M.method = "None" THEN <<>> ELSE <<"m">>)
    \o (IF M.params = "None" THEN <<>> ELSE <<"p">> \o EncValue(M.params))
    \o (IF M.result = "None" THEN <<>> ELSE <<"r">> \o EncValue(M.result))
    \o (IF M.error.tag = "None" THEN <<>>
        ELSE <<"E">>
             \o (IF M.error.data = "None" THEN <<>> ELSE <<"d">> \o EncValue(M.error.data))
             \o <<"}">>)
    \o <<"}">>

\* (mutant) the length in characters
content_len_Chars(content) == Len(SelectSeq(content, LAMBDA b : b # "A9"))

\* content.len()
content_len(content) == Len(content)

\* what write_message writes
Frame(M) ==
    LET content == to_vec(M)
    IN  <<"C">> \o ToDecimal(content_len(content)) \o <<"CR", "LF", "CR", "LF">> \o content

At(c, p) == IF p \in 1..Len(c) THEN c[p] ELSE "EOF"

\* the end of the run of digits that starts at p
RECURSIVE DigitsEnd(_, _)
DigitsEnd(c, p) == IF IsDigit(At(c, p)) THEN DigitsEnd(c, p + 1) ELSE p

\* a Value at p: [ok, v, next]
ParseValue(c, p) ==
    IF At(c, p) = "n" THEN [ok |-> TRUE, v |-> "null", next |-> p + 1]
    ELSE IF At(c, p) = "q" /\ At(c, p + 1) = "C3" /\ At(c, p + 2) = "A9" /\ At(c, p + 3) = "q"
    THEN [ok |-> TRUE, v |-> "e", next |-> p + 4]
    ELSE [ok |-> FALSE, v |-> "None", next |-> p]

\* an Option<Value> field after its key at p: the literal null gives None
ParseOption(c, key, p) ==
    IF At(c, p) # key THEN [ok |-> TRUE, v |-> "None", next |-> p]
    ELSE LET r == ParseValue(c, p + 1)
         IN  IF r.ok /\ r.v = "null" THEN [r EXCEPT !.v = "None"] ELSE r

\* an Option<RpcId> field at p
ParseId(c, p) ==
    IF At(c, p) # "i" THEN [ok |-> TRUE, v |-> NoId, next |-> p]
    ELSE IF At(c, p + 1) = "q"
    THEN LET e == DigitsEnd(c, p + 2)
             d == ParseDecimal(SubSeq(c, p + 2, e - 1))
         IN  [ok |-> d.ok /\ At(c, e) = "q",
              v |-> [tag |-> "String", v |-> d.value], next |-> e + 1]
    ELSE LET e == DigitsEnd(c, p + 1)
             d == ParseDecimal(SubSeq(c, p + 1, e - 1))
         IN  [ok |-> d.ok, v |-> [tag |-> "Number", v |-> d.value], next |-> e]

\* an Option<RpcError> field at p
ParseError(c, p) ==
    IF At(c, p) # "E" THEN [ok |-> TRUE, v |-> [tag |-> "None", data |-> "None"], next |-> p]
    ELSE LET d == ParseOption(c, "d", p + 1)
         IN  [ok |-> d.ok /\ At(c, d.next) = "}",
              v |-> [tag |-> "Some", data |-> d.v], next |-> d.next + 1]

\* serde_json::from_slice::<RpcMessage>: [ok, msg]
from_slice(c) ==
    LET id == ParseId(c, 3)
        method == IF At(c, id.next) = "m" THEN [v |-> "m", next |-> id.next + 1]
                  ELSE [v |-> "None", next |-> id.next]
        params == ParseOption(c, "p", method.next)
        result == ParseOption(c, "r", params.next)
        error == ParseError(c, result.next)
    IN  [ok |-> /\ At(c, 1) = "{" /\ At(c, 2) = "J"
                /\ id.ok /\ params.ok /\ result.ok /\ error.ok
                /\ At(c, error.next) = "}" /\ error.next = Len(c),
         msg |-> [id |-> id.v, method |-> method.v, params |-> params.v,
                  result |-> result.v, error |-> error.v]]

\* the end of the line that starts at p: the place of its LF, or the end
RECURSIVE LineEnd(_, _)
LineEnd(s, p) == IF p >= Len(s) \/ s[p] = "LF" THEN p ELSE LineEnd(s, p + 1)

\* str::trim of a header line: the line without its CR LF
TrimLine(line) == SelectSeq(line, LAMBDA b : b \notin {"CR", "LF"})

\* read_headers from p: [ok, content_length, next]; content_length -1 is None
RECURSIVE read_headers(_, _, _)
read_headers(s, p, content_length) ==
    IF p > Len(s) THEN [ok |-> FALSE, content_length |-> 0, next |-> p]
    ELSE LET e == LineEnd(s, p)
             line == SubSeq(s, p, e)
             trimmed == TrimLine(line)
         IN  IF line = <<"CR", "LF">>
             THEN [ok |-> content_length >= 0, content_length |-> content_length,
                   next |-> e + 1]
             ELSE IF trimmed # <<>> /\ trimmed[1] = "C"
             THEN LET n == ParseDecimal(Tail(trimmed))
                  IN  IF n.ok THEN read_headers(s, e + 1, n.value)
                      ELSE [ok |-> FALSE, content_length |-> 0, next |-> e + 1]
             ELSE read_headers(s, e + 1, content_length)

\* read_message on the unread bytes s: [ok, msg, rest]
read_message(s) ==
    LET h == read_headers(s, 1, -1)
        content == SubSeq(s, h.next, h.next + h.content_length - 1)
        parsed == from_slice(content)
    IN  IF ~h.ok \/ Len(s) < h.next + h.content_length - 1
        THEN [ok |-> FALSE, msg |-> NoId, rest |-> <<>>]
        ELSE [ok |-> parsed.ok, msg |-> parsed.msg,
              rest |-> SubSeq(s, h.next + h.content_length, Len(s))]

\* a message is written to the pipe
WriteMessage(M) ==
    /\ Len(fr_sent) < MaxFrames
    /\ fr_sent' = Append(fr_sent, M)
    /\ fr_stream' = fr_stream \o Frame(M)
    /\ UNCHANGED <<fr_got, proxy_vars, edit_vars, shutdown_vars, text_vars, switch_vars>>

\* the reader at the other end reads one message
ReadMessage ==
    /\ fr_stream # <<>>
    /\ LET r == read_message(fr_stream)
       IN  /\ fr_got' = Append(fr_got, [ok |-> r.ok, msg |-> r.msg])
           /\ fr_stream' = r.rest
    /\ UNCHANGED <<fr_sent, proxy_vars, edit_vars, shutdown_vars, text_vars, switch_vars>>

InitFrame ==
    /\ FrameIdle
    /\ SwitchIdle
    /\ EditIdle
    /\ ShutdownIdle
    /\ TextIdle
    /\ ProxyIdle

NextFrame ==
    \/ \E M \in FramedMessages : WriteMessage(M)
    \/ ReadMessage

SpecFrame == InitFrame /\ [][NextFrame]_vars

----------------------------------------------------------------------------
(* Properties *)

PoolSize == Cardinality({e \in Envs : pool[e] # NoBackend})

\* a message of client_out that a reader task tagged (not one the proxy made)
Forwarded(o) == o.session # 0

IsCancellation(m, i) == m.id = i /\ m.method = "" /\ m.code = REQUEST_CANCELLED

\* C1: once (env, session) has left the pool (LRU eviction, TTL eviction or
\* crash), no message that its reader task tagged (env, session) is written
\* to the client, also when a new session occupies env.
C1_NoStaleForward ==
    \A k \in 1..Len(client_out) : \A g \in gone :
        ~(client_out[k].venv = g.venv /\ client_out[k].session = g.session)

\* a message of a removed session arrives while a newer session holds its env
C1_Witness ==
    /\ last_op.op = "stale"
    /\ \E g \in gone : g.venv = last_op.venv /\ g.session = last_op.session
    /\ pool[last_op.venv] # NoBackend
    /\ pool[last_op.venv].session # last_op.session
    /\ client_out = <<>>

\* C2: the pool never holds more entries than its capacity (Warming and
\* Ready alike), and a step that inserts a backend for an absent env into a
\* full pool has evicted the LRU entry in the same step.
C2_PoolWithinCapacity ==
    /\ [](PoolSize <= capacity)
    /\ [][\A e \in Envs :
            (pool[e] = NoBackend /\ pool'[e] # NoBackend /\ PoolSize = capacity)
            => \E g \in last_op'.removed :
                  /\ g.cause = "lru"
                  /\ pool[g.venv].session = g.session
                  /\ pool'[g.venv] = NoBackend]_vars

\* a request made the proxy evict one backend and insert another, Warming
C2_Witness ==
    /\ last_op.op = "request"
    /\ \E g \in last_op.removed : g.cause = "lru"
    /\ pool[last_op.venv].status = "Warming"
    /\ PoolSize = capacity

\* C3: when a step evicts (env, session) by LRU pressure or by the TTL tick,
\* every pending_requests entry that named it gets exactly one response
\* with its id and error.code = -32800 and is removed.
C3_EvictionCancelsPending ==
    [][\A g \in last_op'.removed :
          g.cause \in {"lru", "ttl"}
          => \A i \in ClientIds :
                (pending_requests[i] =
                     [venv_path |-> g.venv, backend_session |-> g.session])
                => /\ Cardinality({k \in 1..Len(client_out') :
                          IsCancellation(client_out'[k].msg, i)}) = 1
                   /\ pending_requests'[i] = NoPending]_vars

\* an eviction that cancelled two pending requests
C3_Witness ==
    /\ \E g \in last_op.removed : g.cause = "lru"
    /\ \A i \in ClientIds :
          \E k \in 1..Len(client_out) : IsCancellation(client_out[k].msg, i)

C5_BackendRequestRewritten ==
    /\ [](\A p \in ProxyIds :
            pending_backend_requests[p] # NoPendingBackend => p <= next_proxy_id)
    /\ [][last_op'.op = "backend_request"
          => /\ Len(client_out') = 1
             /\ LET o == client_out'[1]
                IN  /\ is_request(o.msg) /\ Forwarded(o)
                    /\ o.msg.id = next_proxy_id'
                    /\ next_proxy_id' > next_proxy_id
                    /\ pending_backend_requests[o.msg.id] = NoPendingBackend
                    /\ pending_backend_requests' =
                          [pending_backend_requests EXCEPT ![o.msg.id] =
                              [original_id |-> last_op'.id,
                               venv_path |-> last_op'.venv,
                               session |-> last_op'.session]]]_vars

\* two backends used the same original id; both requests are pending
C5_Witness ==
    /\ last_op.op = "backend_request"
    /\ \E p, q \in ProxyIds :
          /\ p # q
          /\ pending_backend_requests[p] # NoPendingBackend
          /\ pending_backend_requests[q] # NoPendingBackend
          /\ pending_backend_requests[p].original_id = pending_backend_requests[q].original_id
          /\ pending_backend_requests[p].venv_path # pending_backend_requests[q].venv_path

\* the instances that the step into the primed state evicted (LRU or TTL)
EvictedNow(op) == {g \in op.removed : g.cause \in {"lru", "ttl"}}

ClientOps == {"didOpen", "request", "response", "didClose"}

C7_CrashHandled ==
    /\ [](\A g \in gone : g.cause = "crash" => g.session \notin shutdown_started)
    /\ [][last_op'.op = "crash"
          => LET v == last_op'.venv
                 s == last_op'.session
             IN  /\ pool[v].session = s
                 /\ pool'[v] = NoBackend
                 /\ \A i \in ClientIds :
                       (pending_requests[i] = [venv_path |-> v, backend_session |-> s])
                       => /\ Cardinality({k \in 1..Len(client_out') :
                                 IsCancellation(client_out'[k].msg, i)}) = 1
                          /\ pending_requests'[i] = NoPending
                 /\ \A p \in ProxyIds :
                       (pending_backend_requests[p].venv_path = v
                           /\ pending_backend_requests[p].session = s)
                       => pending_backend_requests'[p] = NoPendingBackend
                 /\ shutdown_started' = shutdown_started
                 /\ backend_out' = <<>>]_vars

\* a crash that cancelled a pending request
C7_Witness ==
    /\ last_op.op = "crash"
    /\ \E g \in last_op.removed : g.cause = "crash" /\ g.session = last_op.session
    /\ \E k \in 1..Len(client_out), i \in ClientIds : IsCancellation(client_out[k].msg, i)
    /\ pool[last_op.venv] = NoBackend

\* C8 as stated: a crash of the backend of env E writes an empty
\* publishDiagnostics for every cached document of E.
C8_CrashClearsDiagnostics ==
    [][last_op'.op = "crash"
          => \A u \in Uris :
                (open_documents[u].open /\ open_documents[u].venv = last_op'.venv)
                => \E k \in 1..Len(client_out') :
                      client_out'[k].msg = ClearedDiagnostics(u)]_vars

\* how often the step wrote an empty publishDiagnostics for u
ClearedCount(out, u) ==
    Cardinality({k \in 1..Len(out) :
        ~Forwarded(out[k]) /\ out[k].msg = ClearedDiagnostics(u)})

\* C9: a step that evicts backends (LRU or TTL) writes one empty
\* publishDiagnostics for each cached document of an evicted env and none
\* for any other document.
C9_EvictionClearsDiagnostics ==
    [][EvictedNow(last_op') # {}
          => \A u \in Uris :
                ClearedCount(client_out', u) =
                    IF /\ open_documents'[u].open
                       /\ \E g \in EvictedNow(last_op') : g.venv = open_documents'[u].venv
                    THEN 1 ELSE 0]_vars

\* a TTL eviction cleared the document of the evicted env and left the
\* open document of the other env alone
C9_Witness ==
    /\ last_op.op = "ttl_tick"
    /\ \E g \in last_op.removed : g.cause = "ttl" /\ g.venv = "A"
    /\ open_documents["a1"].open /\ open_documents["b1"].open
    /\ pool["B"] # NoBackend
    /\ ClearedCount(client_out, "a1") = 1 /\ ClearedCount(client_out, "b1") = 0

\* the writes of a step that drained a warmup queue
Drained(out) == SelectSeq(out, LAMBDA o : o.origin = "drain")

WrittenTo(out, v) == SelectSeq(out, LAMBDA o : o.venv = v)

C13_ForwardedInReceiveOrder ==
    [][LET fw == SelectSeq(client_out', Forwarded)
       IN  fw # <<>>
           => /\ Len(fw) = 1
              /\ \E bm \in Deliverable :
                    /\ bm.ok
                    /\ DispatchBackendMessage(bm)
                    /\ fw[1].venv = bm.venv_path /\ fw[1].session = bm.session
                    /\ fw[1].msg = IF is_request(bm.msg)
                                   THEN [bm.msg EXCEPT !.id = next_proxy_id']
                                   ELSE bm.msg]_vars

\* a notification of the current backend was forwarded in its dispatch step
C13_Witness ==
    /\ last_op.op = "backend_notification"
    /\ Len(client_out) = 1
    /\ client_out[1] = ToClient(RpcMessage(0, "$/progress", "report", 0, ""),
                                last_op.venv, last_op.session)
    /\ pool[last_op.venv].session = last_op.session

\* the sessions of the instances that are or were in the pool
SessionsInPool == {pool[e].session : e \in {x \in Envs : pool[x] # NoBackend}}
SessionsGone == {g.session : g \in gone}

\* C14: every instance gets a session number larger than every number given
\* before: the counter never decreases, an instance that enters the pool
\* carries the new value of the counter, which exceeds the old one, and so
\* no two instances, in the pool or removed from it, at the same or at
\* different envs, share a session.
C14_SessionsUnique ==
    /\ [](/\ \A e1, e2 \in Envs :
               (pool[e1] # NoBackend /\ pool[e2] # NoBackend /\ e1 # e2)
               => pool[e1].session # pool[e2].session
          /\ SessionsInPool \cap SessionsGone = {}
          /\ \A g1, g2 \in gone : g1.session = g2.session => g1 = g2
          /\ \A s \in SessionsInPool \cup SessionsGone : 1 <= s /\ s <= backend_session)
    /\ [][/\ backend_session' >= backend_session
          /\ \A e \in Envs :
                (pool'[e] # NoBackend /\ pool'[e].session # pool[e].session)
                => /\ pool'[e].session = backend_session'
                   /\ backend_session' = backend_session + 1]_vars

\* the second instance at env A, after the first was removed from it
C14_Witness ==
    /\ pool["A"].session = 2
    /\ \E g \in gone : g.venv = "A" /\ g.session = 1
    /\ backend_session = 2

\* the positions in lru of the backends without a pending client request
IdlePositions ==
    {k \in 1..Len(lru) :
        \A i \in ClientIds :
            pending_requests[i] # [venv_path |-> lru[k],
                                   backend_session |-> pool[lru[k]].session]}

\* C15: the backend evicted to make room is the least recently used one among
\* those without pending client requests; when every backend has pending
\* requests it is the least recently used one of all.
C15_LruVictim ==
    [][\A g \in last_op'.removed :
          g.cause = "lru"
          => /\ pool[g.venv].session = g.session
             /\ g.venv = IF IdlePositions # {}
                         THEN lru[CHOOSE k \in IdlePositions : \A j \in IdlePositions : k <= j]
                         ELSE lru[1]]_vars

\* the least recently used backend A had a pending request and B had none:
\* B was evicted, A stays with its request
C15_Witness ==
    /\ last_op.op = "make_room"
    /\ lru = <<"A">>
    /\ \E g \in last_op.removed : g.cause = "lru" /\ g.venv = "B"
    /\ \E i \in ClientIds : pending_requests[i].venv_path = "A"

\* (e, its session) has a pending request in one of the two directions
HasPendingTraffic(e) ==
    \/ \E i \in ClientIds :
          pending_requests[i] = [venv_path |-> e, backend_session |-> pool[e].session]
    \/ \E p \in ProxyIds :
          /\ pending_backend_requests[p].venv_path = e
          /\ pending_backend_requests[p].session = pool[e].session

\* C16: a TTL tick removes a backend only if its last_used is older than the
\* TTL (it is among the expired entries of this tick) and no request is
\* pending for its session in either direction; an expired backend with a
\* pending request in either direction is left as it was.
C16_TtlEvictsIdleOnly ==
    [][last_op'.op = "ttl_tick"
          => \A e \in Envs :
                LET is_expired == \E j \in 1..last_op'.expired : lru[j] = e
                IN  /\ (pool[e] # NoBackend /\ pool'[e] # pool[e])
                          => /\ is_expired /\ ~HasPendingTraffic(e)
                             /\ pool'[e] = NoBackend
                             /\ [venv |-> e, session |-> pool[e].session, cause |-> "ttl"]
                                   \in last_op'.removed
                    /\ (pool[e] # NoBackend /\ is_expired /\ HasPendingTraffic(e))
                          => pool'[e] = pool[e]]_vars

\* both backends were expired: the idle one was evicted, the one that waits
\* for the client's answer to its request stayed
C16_Witness ==
    /\ last_op.op = "ttl_tick" /\ last_op.expired = 2
    /\ \E g \in last_op.removed : g.cause = "ttl"
    /\ \E e \in Envs : \E p \in ProxyIds :
          /\ pool[e] # NoBackend
          /\ pending_backend_requests[p].venv_path = e
          /\ pending_backend_requests[p].session = pool[e].session

\* the envs whose backend entered the pool in the step into the primed state
CreatedNow == {e \in Envs : pool'[e] # NoBackend /\ pool'[e].session # pool[e].session}

C18_ReplayOfOwnDocuments ==
    [][\A e \in CreatedNow : \A u \in Uris :
          (\E k \in 1..Len(backend_out') :
              backend_out'[k] = ToBackend(DidOpenOf(u), e, pool'[e].session, "replay"))
          <=> (open_documents'[u].open /\ open_documents'[u].venv = e)]_vars

\* C19 as stated: open_documents holds only documents that were opened and
\* not closed since; a document is absent from it once its didClose has been
\* handled.
C19_ClosedDocumentRemoved ==
    [][last_op'.op = "didClose" => ~open_documents'[last_op'.uri].open]_vars

\* the text after the change items were applied in order: an item without
\* range replaces the text, an item with a range edits it
RECURSIVE AppliedInOrder(_, _)
AppliedInOrder(text, changes) ==
    IF changes = <<>> THEN [ok |-> TRUE, text |-> text]
    ELSE LET item == Head(changes)
             r == IF item.range = NoRange THEN [ok |-> TRUE, text |-> item.text]
                  ELSE apply_incremental_change(text, item.range, item.text)
         IN  IF r.ok THEN AppliedInOrder(r.text, Tail(changes)) ELSE r

\* C20 as stated: after a didChange with a non-empty contentChanges array
\* (whose items all apply) the cached text is the previous text with every
\* item applied in array order, and the cached version is the declared one.
C20_DidChangeAppliesAll ==
    [][(last_change'.changes # <<>>
          /\ AppliedInOrder(cached_text, last_change'.changes).ok)
       => /\ cached_text' = AppliedInOrder(cached_text, last_change'.changes).text
          /\ cached_version' = last_change'.version]_vars

\* C21: a didChange with an empty contentChanges array leaves the cached
\* text and the cached version as they were, whatever version it declares.
C21_EmptyChangesNoEffect ==
    [][last_change'.changes = <<>>
       => cached_text' = cached_text /\ cached_version' = cached_version]_vars

\* an empty didChange that declared version 2 was handled on a document of
\* version 1 with a non-empty text
C21_Witness ==
    /\ last_change = [changes |-> <<>>, version |-> 2]
    /\ cached_version = 1
    /\ cached_text # <<>>

\* C22 as stated: an error on a backend's pipe never terminates the main
\* loop; the loop is running after every step that met such an error.
C22_BackendErrorKeepsLoop ==
    [][last_op'.op \in {"backend_read_error", "crash", "stale_err"} => running']_vars

\* C23: a failed read of the client's pipe terminates the main loop, and
\* after it no client or backend message is processed (no step follows).
C23_ClientReadErrorTerminates ==
    /\ [][last_op'.op = "client_read_error" => ~running']_vars
    /\ [][last_op.op # "client_read_error"]_vars

\* the client's pipe failed while a backend was in the pool and a request of
\* the client was pending at it
C23_Witness ==
    /\ last_op.op = "client_read_error"
    /\ ~running
    /\ \E e \in Envs : /\ pool[e] # NoBackend
                       /\ \E i \in ClientIds : pending_requests[i].venv_path = e

\* C24 as stated: a failed spawn or handshake met while a client message is
\* handled leaves the loop running and no new backend in the pool, and the
\* request that caused it is answered with the -32603 error response.
C24_SpawnFailureKeepsLoop ==
    [][last_op'.op \in {"didOpen_failed", "request_failed"}
       => /\ running'
          /\ \A e \in Envs : pool'[e] \in {pool[e], NoBackend}
          /\ last_op'.op = "request_failed"
             => \E k \in 1..Len(client_out') :
                   /\ client_out'[k].msg.id = last_op'.id
                   /\ client_out'[k].msg.code = INTERNAL_ERROR]_vars

\* C25 as stated: when shutdown_gracefully has returned and any of its steps
\* failed or timed out, kill_backend was called.
C25_AnyFailureKills ==
    sd_pc = "done" => (sd_failed # {} => sd_kill # "none")

\* C25, amended: kill_backend is called exactly when the shutdown request
\* could not be sent or the child did not exit within its 1 s; after a failed
\* wait for the response or a failed exit notification the child that exits
\* in time is not killed, and Ok is returned.
C25_KilledUnlessChildExited ==
    sd_pc = "done"
    => /\ sd_kill # "none" <=> sd_failed \cap {"send_shutdown", "wait_child"} # {}
       /\ sd_kill = "none" => sd_result = "Ok"
       /\ "send_shutdown" \in sd_failed => sd_written = <<>>

\* the response timed out, the exit notification could not be sent, the
\* child exited in time: it was not killed
C25_Witness ==
    /\ sd_pc = "done"
    /\ sd_failed = {"wait_response", "send_exit"}
    /\ sd_kill = "none"
    /\ sd_result = "Ok"

\* the frames of the messages written and not yet read
RECURSIVE FramesFrom(_, _)
FramesFrom(sent, k) ==
    IF k > Len(sent) THEN <<>> ELSE Frame(sent[k]) \o FramesFrom(sent, k + 1)

\* each read consumed exactly the frame of one message, so the unread bytes
\* start at the header of the next frame
ReadsAtFrameStarts ==
    /\ Len(fr_got) <= Len(fr_sent)
    /\ fr_stream = FramesFrom(fr_sent, Len(fr_got) + 1)

\* C26 as stated: the k-th read yields a message equal to the k-th message
\* written, and every read starts at the header of its own frame.
C26_RoundTrip ==
    /\ ReadsAtFrameStarts
    /\ \A k \in 1..Len(fr_got) : fr_got[k] = [ok |-> TRUE, msg |-> fr_sent[k]]

\* M with every optional field that holds the JSON null made absent
NullsAbsent(M) ==
    [M EXCEPT !.params = IF @ = "null" THEN "None" ELSE @,
              !.result = IF @ = "null" THEN "None" ELSE @,
              !.error = [@ EXCEPT !.data = IF @ = "null" THEN "None" ELSE @]]

\* C26, amended: the k-th read yields the k-th message written, except that
\* an optional field (params, result, error.data) that held the JSON null
\* comes back absent; every read starts at the header of its own frame.
C26_RoundTripButNull ==
    /\ ReadsAtFrameStarts
    /\ \A k \in 1..Len(fr_got) :
          fr_got[k] = [ok |-> TRUE, msg |-> NullsAbsent(fr_sent[k])]

\* two frames were written and read back; the first held a character of
\* two bytes and a null result, the second a string id and came back equal
C26_Witness ==
    /\ Len(fr_got) = 2
    /\ fr_sent[1].params = "e" /\ fr_sent[1].result = "null"
    /\ fr_got[1].msg.result = "None"
    /\ fr_sent[2].id.tag = "String"
    /\ fr_got[2] = [ok |-> TRUE, msg |-> fr_sent[2]]

\* the lines of a text: line n starts after the n-th newline and ends
\* before the next one, or at the end of the text
Newlines(text) == {k \in 1..Len(text) : text[k] = "NL"}
LastLine(text) == Cardinality(Newlines(text))
LineFirst(text, line) ==
    IF line = 0 THEN 1
    ELSE 1 + CHOOSE k \in Newlines(text) :
                 Cardinality({j \in Newlines(text) : j <= k}) = line
LineEndOf(text, line) ==
    LET later == {k \in Newlines(text) : k >= LineFirst(text, line)}
    IN  IF later = {} THEN Len(text) + 1
        ELSE CHOOSE k \in later : \A j \in later : k <= j

RECURSIVE Utf16Units(_)
Utf16Units(s) == IF s = <<>> THEN 0 ELSE (IF Head(s) = "S4" THEN 2 ELSE 1) + Utf16Units(Tail(s))

\* C27: on a line of the text, position_to_offset returns the byte offset of
\* the place that is `character` UTF-16 code units (a scalar outside the BMP
\* counts 2) after the start of the line, and the byte offset of the end of
\* the line (before its newline) when character exceeds the line's length.
C27_Utf16ToByteOffset ==
    (te_call.fn = "position_to_offset" /\ te_call.line <= LastLine(te_call.text))
    => LET text == te_call.text
           first == LineFirst(text, te_call.line)
           end == LineEndOf(text, te_call.line)
       IN  /\ te_call.ok
           /\ \A n \in first..end :
                 Utf16Units(SubSeq(text, first, n - 1)) = te_call.character
                 => te_call.offset = ByteOffsetOf(text, n)
           /\ te_call.character > Utf16Units(SubSeq(text, first, end - 1))
              => te_call.offset = ByteOffsetOf(text, end)

\* three code units into a line that starts with a scalar outside the BMP:
\* byte offset 5
C27_Witness ==
    /\ te_call.fn = "position_to_offset"
    /\ te_call.text = <<"S4", "a", "a">>
    /\ te_call.line = 0 /\ te_call.character = 3
    /\ te_call.ok /\ te_call.offset = 5

\* C28: position_to_offset succeeds for every line up to and including the
\* one that starts right after the final newline, and fails beyond it.
C28_LineRange ==
    te_call.fn = "position_to_offset"
    => (te_call.ok <=> te_call.line <= LastLine(te_call.text))

\* the empty line after the final newline is accepted
C28_Witness ==
    /\ te_call.fn = "position_to_offset"
    /\ te_call.text = <<"a", "NL">>
    /\ te_call.line = 1 /\ te_call.character = 0
    /\ te_call.ok /\ te_call.offset = 2

\* C29: apply_incremental_change fails when the start position maps to a
\* byte offset greater than that of the end position, and when a position
\* is out of range; on a failure the text is as it was.
C29_InvalidRangeFails ==
    te_call.fn = "apply_incremental_change"
    => LET start == position_to_offset(te_call.text, te_call.range.start.line,
                                       te_call.range.start.character)
           end == position_to_offset(te_call.text, te_call.range.end.line,
                                     te_call.range.end.character)
       IN  /\ (~start.ok \/ ~end.ok) => ~te_call.ok
           /\ (start.ok /\ end.ok /\ start.offset > end.offset) => ~te_call.ok
           /\ ~te_call.ok => te_text = te_call.text

\* a range from 0:3 back to 0:1 was refused and the text kept
C29_Witness ==
    /\ te_call.fn = "apply_incremental_change"
    /\ te_call.text = <<"a", "S4", "a">>
    /\ te_call.range = [start |-> [line |-> 0, character |-> 3],
                        end |-> [line |-> 0, character |-> 1]]
    /\ ~te_call.ok
    /\ te_text = te_call.text

\* the position of the n-th character of a text (n = Len + 1: the end)
PositionOf(text, n) ==
    LET before == {k \in Newlines(text) : k < n}
        first == IF before = {} THEN 1
                 ELSE 1 + CHOOSE k \in before : \A j \in before : j <= k
    IN  [line |-> Cardinality(before),
         character |-> Utf16Units(SubSeq(text, first, n - 1))]

\* C30: after an incremental edit of a valid range, the inverse edit (the
\* range now covered by the inserted text, replaced by the removed text)
\* gives the original text.
C30_InverseEdit ==
    (te_call.fn = "apply_incremental_change" /\ te_call.ok)
    => LET before == te_call.text
           s == position_to_offset(before, te_call.range.start.line,
                                   te_call.range.start.character).offset
           e == position_to_offset(before, te_call.range.end.line,
                                   te_call.range.end.character).offset
           i == CHOOSE k \in 1..(Len(before) + 1) : ByteOffsetOf(before, k) = s
           j == CHOOSE k \in 1..(Len(before) + 1) : ByteOffsetOf(before, k) = e
           removed == SubSeq(before, i, j - 1)
           inverse == [start |-> PositionOf(te_text, i),
                       end |-> PositionOf(te_text, i + Len(te_call.new_text))]
       IN  apply_incremental_change(te_text, inverse, removed)
              = [ok |-> TRUE, text |-> before, panic |-> FALSE]

\* an edit across a line end that removed a scalar outside the BMP and a
\* newline and inserted a character
C30_Witness ==
    /\ te_call.fn = "apply_incremental_change" /\ te_call.ok
    /\ te_call.text = <<"S4", "NL", "a">>
    /\ te_call.range = [start |-> [line |-> 0, character |-> 0],
                        end |-> [line |-> 1, character |-> 0]]
    /\ te_call.new_text = <<"a">>
    /\ te_text = <<"a", "a">>

\* C31: a crash signal (Err) tagged (env, S) that the loop receives when S is
\* no longer the session at env, whether env is empty or holds a newer
\* session, changes nothing: the pool, the LRU order, both pending tables,
\* the document cache and the counters stay as they are, nothing is written
\* to the client or to a backend, no instance is removed or shut down.
C31_LateCrashDiscarded ==
    [][last_op'.op = "stale_err"
          => /\ pool' = pool /\ lru' = lru
             /\ pending_requests' = pending_requests
             /\ pending_backend_requests' = pending_backend_requests
             /\ open_documents' = open_documents
             /\ backend_session' = backend_session
             /\ next_proxy_id' = next_proxy_id
             /\ gone' = gone /\ shutdown_started' = shutdown_started
             /\ last_op'.removed = {}
             /\ client_out' = <<>> /\ backend_out' = <<>>
             /\ running']_vars

\* the crash signal of a removed session arrived while a newer session held
\* its environment and had a request of the client pending
C31_Witness ==
    /\ last_op.op = "stale_err"
    /\ \E g \in gone : g.venv = last_op.venv /\ g.session = last_op.session
    /\ pool[last_op.venv] # NoBackend
    /\ pool[last_op.venv].session # last_op.session
    /\ \E i \in ClientIds :
          pending_requests[i] = [venv_path |-> last_op.venv,
                                 backend_session |-> pool[last_op.venv].session]

\* C32: a response of the current backend (env, S) for an id whose
\* pending_requests entry names another (env', S') is not forwarded to the
\* client, and the entry stays in pending_requests.
C32_StaleResponseKeepsEntry ==
    [][(/\ last_op'.op = "backend_response"
        /\ pending_requests[last_op'.id] # NoPending
        /\ pending_requests[last_op'.id] #
               [venv_path |-> last_op'.venv, backend_session |-> last_op'.session])
          => /\ client_out' = <<>>
             /\ pending_requests'[last_op'.id] = pending_requests[last_op'.id]]_vars

\* the handlers of a message received from a current backend, and of a
\* message routed to a backend
BackendTrafficOps == {"backend_request", "backend_response", "backend_notification"}
RoutedOps == {"request", "response", "didOpen", "didClose"}

\* C33: a step that receives a message from a current backend, or routes a
\* message to a backend, leaves that backend the most recently used entry
\* of the pool (last in the LRU order, youngest last_used), so that it is
\* neither the LRU victim while another entry exists nor among the entries
\* reported as expired before a full TTL has passed.
C33_TrafficUpdatesLastUsed ==
    [][(/\ last_op'.op \in BackendTrafficOps \cup RoutedOps
        /\ last_op'.venv # ""
        /\ pool'[last_op'.venv] # NoBackend)
          => lru'[Len(lru')] = last_op'.venv]_vars

\* C34: after every step of the main loop, each entry of pending_requests
\* and each entry of pending_backend_requests names an (env, session) that
\* is in the pool at env; no entry naming an evicted or crashed session is
\* left by the handler that removed it.
C34_PendingNamesCurrent ==
    /\ \A i \in ClientIds :
          pending_requests[i] # NoPending
          => /\ pool[pending_requests[i].venv_path] # NoBackend
             /\ pool[pending_requests[i].venv_path].session =
                    pending_requests[i].backend_session
    /\ \A p \in ProxyIds :
          pending_backend_requests[p] # NoPendingBackend
          => /\ pool[pending_backend_requests[p].venv_path] # NoBackend
             /\ pool[pending_backend_requests[p].venv_path].session =
                    pending_backend_requests[p].session

\* a crash took a backend with a pending request of the client and a pending
\* request of its own out of the pool, while a request of the client stays
\* pending at the other backend
C34_Witness ==
    /\ last_op.op = "crash"
    /\ \E k \in 1..Len(client_out), i \in ClientIds :
          IsCancellation(client_out[k].msg, i)
    /\ \E p \in ProxyIds :
          /\ p <= next_proxy_id
          /\ pending_backend_requests[p] = NoPendingBackend
    /\ \E j \in ClientIds :
          /\ pending_requests[j] # NoPending
          /\ pending_requests[j].venv_path # last_op.venv

\* C35: when the loop handles a notification m of the current session s of
\* env v, it forwards m, and nothing else, to the client.  If m is $/progress
\* with kind "end" and the backend is Warming, the backend becomes Ready and
\* its whole queue is written to it, first queued first; otherwise (the
\* backend is Ready, or m is another notification) the pool is as before and
\* nothing is written to a backend.
C35_ProgressEndMakesReady ==
    [][\A bm \in Deliverable :
          (/\ bm.ok /\ is_notification(bm.msg)
           /\ is_current(Here, bm.venv_path, bm.session)
           /\ DispatchBackendMessage(bm))
          => LET v == bm.venv_path
                 s == bm.session
                 m == bm.msg
                 queued == pool[v].queue
             IN  /\ client_out' = <<ToClient(m, v, s)>>
                 /\ IF m.method = "$/progress" /\ m.kind = "end"
                       /\ pool[v].status = "Warming"
                    THEN /\ pool' = [pool EXCEPT ![v] =
                                       [session |-> s, status |-> "Ready", queue |-> <<>>]]
                         /\ backend_out' =
                               [k \in 1..Len(queued) |->
                                   ToBackend(queued[k].msg, v, s, "drain")]
                    ELSE /\ pool' = pool
                         /\ backend_out' = <<>>]_vars

\* $/progress end made a Warming backend Ready, and the two requests of its
\* queue were written to it
C35_Witness ==
    /\ last_op.op = "backend_notification"
    /\ client_out = <<ToClient(RpcMessage(0, "$/progress", "end", 0, ""),
                               last_op.venv, last_op.session)>>
    /\ pool[last_op.venv].status = "Ready"
    /\ Len(backend_out) = 2
    /\ backend_out[1].msg.id # backend_out[2].msg.id
    /\ \A k \in 1..2 : backend_out[k].origin = "drain"

\* the read r ends the wait for the shutdown response
EndsShutdownWait(r) ==
    \/ r.kind = "response" /\ r.id = next_id - 1
    \/ r.kind \in {"read_error", "timeout"}

\* C36: in shutdown_gracefully the exit notification is written only after
\* the shutdown request, and only once the wait for the response to that
\* request has ended by the matching response, a read error or the deadline;
\* a notification or a response with another id leaves the wait going and
\* nothing is written; and the procedure returns in the end.
C36_ExitAfterShutdownWait ==
    /\ [](\A k \in 1..Len(sd_written) :
            sd_written[k].method = "exit"
            => /\ k = 2
               /\ sd_written[1] = RpcMessage(next_id - 1, "shutdown", "", 0, ""))
    /\ [][Len(sd_written') > Len(sd_written) /\ sd_written'[Len(sd_written')].method = "exit"
            => sd_pc = "send_exit"]_vars
    /\ [][sd_pc # "send_exit" /\ sd_pc' = "send_exit"
            => /\ sd_pc = "wait_response"
               /\ \E r \in ShutdownReads : EndsShutdownWait(r) /\ WaitShutdownResponse(r)
               /\ \A r \in ShutdownReads : WaitShutdownResponse(r) => EndsShutdownWait(r)]_vars
    /\ [][\A r \in ShutdownReads :
            (WaitShutdownResponse(r) /\ ~EndsShutdownWait(r))
            => /\ sd_pc' = "wait_response"
               /\ sd_written' = sd_written
               /\ sd_skipped' = sd_skipped + 1]_vars
    /\ <>(sd_pc = "done" /\ sd_result # "none")

\* the wait skipped notifications and responses with another id, ended at
\* the matching response, and the exit notification followed the request
C36_Witness ==
    /\ sd_skipped = MaxSkipped
    /\ sd_failed = {}
    /\ sd_written = <<RpcMessage(1, "shutdown", "", 0, ""), RpcMessage(0, "exit", "", 0, "")>>
    /\ sd_pc = "wait_child"

\* the responses with id i among the messages out
ResponsesTo(out, i) ==
    {k \in 1..Len(out) : is_response(out[k].msg) /\ out[k].msg.id = i}

FailedCreationOps == {"request_failed", "didOpen_failed"}

\* C38: when the creation of a backend fails, no instance is inserted: the
\* step adds no entry to the pool and changes none that stays, the env of the
\* document is absent from the pool afterwards; if the pool was full, the
\* LRU victim evicted to make room stays evicted and the pool holds
\* capacity - 1 entries, otherwise the pool is as before.
C38_FailedCreationLeavesNoInstance ==
    [][last_op'.op \in FailedCreationOps
          => /\ \A e \in Envs : pool'[e] # NoBackend => pool'[e] = pool[e]
             /\ \A e \in Envs : pool'[e].session # backend_session'
             /\ backend_session' = backend_session + 1
             /\ last_op'.op = "didOpen_failed"
                   => pool'[find_venv(last_op'.uri)] = NoBackend
             /\ IF PoolSize = capacity
                THEN /\ Cardinality({e \in Envs : pool'[e] # NoBackend}) = capacity - 1
                     /\ \E g \in last_op'.removed :
                           /\ last_op'.removed = {g}
                           /\ g.cause = "lru"
                           /\ pool[g.venv].session = g.session
                           /\ pool'[g.venv] = NoBackend
                ELSE /\ pool' = pool
                     /\ last_op'.removed = {}]_vars

\* a request needed a backend for an env outside the full pool: the LRU
\* entry was evicted, the creation failed, the pool holds capacity - 1
C38_Witness ==
    /\ last_op.op = "request_failed"
    /\ \E g \in last_op.removed : g.cause = "lru"
    /\ PoolSize = capacity - 1
    /\ \E k \in 1..Len(client_out) : client_out[k].msg.code = INTERNAL_ERROR

\* C39: whenever position_to_offset succeeds, the offset it returns is at
\* most text.len() and is the byte offset of a character or the end of the
\* text, also when `character` falls inside a surrogate pair; neither its
\* slice of the line nor the replace_range of apply_incremental_change is
\* taken off a character boundary (no panic).
C39_OffsetOnCharBoundary ==
    /\ (te_call.fn = "position_to_offset" /\ te_call.ok)
          => /\ te_call.offset \in 0..ByteLen(te_call.text)
             /\ is_char_boundary(te_call.text, te_call.offset)
    /\ te_call.fn # "none" => ~te_call.panic

\* one code unit into a line that starts with a scalar outside the BMP: the
\* offset is that of the character after the scalar
C39_Witness ==
    /\ te_call.fn = "position_to_offset"
    /\ te_call.text = <<"S4", "a">>
    /\ te_call.line = 0 /\ te_call.character = 1
    /\ te_call.ok /\ te_call.offset = 4

====
